---- MODULE Spec2Model ----
(***************************************************************************)
(* Verification model of the lumos backend: the hybrid retrieval tools     *)
(* (app/agents/tools.py) and the chat turn handlers (app/api/chat.py)      *)
(* together with the database session they write through                   *)
(* (app/database/postgresql.py).                                           *)
(*                                                                         *)
(* Two specifications live here:                                           *)
(*   SpecSearch - one call of hybrid_search_tool, from its first await to  *)
(*                its return, over every query and every engine outcome;   *)
(*   Spec       - chat / chat_stream turns running concurrently against    *)
(*                one PostgreSQL store, each in its own transaction        *)
(*                (READ COMMITTED: a turn reads what is committed plus     *)
(*                its own writes). Every stream is consumed to             *)
(*                exhaustion; a client that disconnects is not modelled.   *)
(***************************************************************************)
EXTENDS Integers, Sequences, FiniteSets, TLC

\* ------------------------------------------------------------------ bounds

\* Longest query text enumerated (characters).
MaxQueryLen == 3
\* Most facts the graph engine returns in one call.
MaxFacts == 4
\* Most chunks the vector engine returns in one call.
MaxChunks == 2
\* Most text deltas the agent streams in one turn.
MaxDeltas == 2
\* Most tool calls the agent makes in one turn.
MaxTools == 1

\* ------------------------------------------------------------- text model
\* A Python str is a sequence of one-character strings.

QueryAlphabet == {"A", "b", " "}

\* str.lower() on one character.
LowerChar(c) ==
  CASE c = "A" -> "a"
    [] c = "B" -> "b"
    [] OTHER -> c

\* str.lower()
Lower(s) == [i \in 1..Len(s) |-> LowerChar(s[i])]

\* True for the characters str.split() treats as separators.
IsSpace(c) == c = " "

\* str.split() with no argument: the maximal runs of non-whitespace
\* characters, left to right; leading, trailing and repeated whitespace
\* yields no empty token.
RECURSIVE SplitFrom(_, _, _)
SplitFrom(s, i, cur) ==
  IF i > Len(s)
    THEN IF cur = <<>> THEN <<>> ELSE <<cur>>
    ELSE IF IsSpace(s[i])
           THEN IF cur = <<>>
                  THEN SplitFrom(s, i + 1, <<>>)
                  ELSE <<cur>> \o SplitFrom(s, i + 1, <<>>)
           ELSE SplitFrom(s, i + 1, Append(cur, s[i]))

Split(s) == SplitFrom(s, 1, <<>>)

\* The `in` operator on two str values: sub occurs in s as a substring.
Contains(sub, s) ==
  \E k \in 0..(Len(s) - Len(sub)) :
    \A j \in 1..Len(sub) : s[k + j] = sub[j]

\* list[:n]
Take(s, n) == SubSeq(s, 1, IF Len(s) < n THEN Len(s) ELSE n)

\* All sequences over S of length at most n.
SeqsUpTo(S, n) == UNION {[1..k -> S] : k \in 0..n}

\* ------------------------------------------------------------ data values

\* GraphSearchResult rows the graph engine can return (fact text and uuid).
FactPool ==
  { [fact |-> <<"A">>,            uuid |-> "f1"],
    [fact |-> <<"a", " ", "B">>,  uuid |-> "f2"],
    [fact |-> <<"c">>,            uuid |-> "f3"] }

\* A dict with no key.
EmptyDict == [k \in {} |-> <<>>]

\* ChunkResult rows the vector engine can return; metadata is the row's
\* JSON metadata (or {} when the column is null).
ChunkPool ==
  { [chunk_id |-> "k1", score |-> 91, metadata |-> EmptyDict],
    [chunk_id |-> "k2", score |-> 80,
     metadata |-> [k \in {"channel_id"} |-> <<"g">>]] }

\* Ranked lists the vector engine can return: distinct rows (chunk_id is
\* the primary key), score descending.
ChunkLists ==
  { cs \in SeqsUpTo(ChunkPool, MaxChunks) :
      \A i, j \in 1..Len(cs) : i < j => cs[i].score > cs[j].score }

Queries == SeqsUpTo(QueryAlphabet, MaxQueryLen)

FactLists == SeqsUpTo(FactPool, MaxFacts)

\* ---------------------------------------------------------------- state

VARIABLES
  query,           \* input_data.query of the hybrid_search_tool call
  hpc,             \* position of hybrid_search_tool ("raised": it raised to its caller)
  vectorCall,      \* vector_search_tool call: idle / inflight / returned / failed
  graphCall,       \* graph_search_tool call: idle / inflight / returned / failed
  vector_base,     \* what vector_search_tool returned, as returned
  vector_results,  \* local of hybrid_search_tool (annotated in place)
  graph_results,   \* local of hybrid_search_tool
  hybrid_out,      \* return value of hybrid_search_tool
  \* --- one call of perform_comprehensive_search (it shares `query`)
  use_vector,      \* parameter
  use_graph,       \* parameter
  spc,             \* position of perform_comprehensive_search
  search_results,  \* one entry per task given to asyncio.gather, in task order
  comprehensive_results,  \* `results`: the dict the function builds and returns
  \* --- the PostgreSQL store, as committed
  sessions,        \* agent_conversations rows
  messages,        \* agent_messages rows, in insertion order
  tool_usage,      \* tool_usage rows
  clock,           \* the database server's clock: the last transaction start time
  \* --- one chat / chat_stream request per turn
  tx,              \* the turn's AsyncSession: rows flushed or added, not committed
  pc,              \* position of the handler
  mode,            \* "chat" or "stream"
  req_session_id,  \* request.session_id ("" when absent)
  context,         \* result of get_conversation_context
  agent_calls,     \* tool calls the agent made in this run
  full_response,   \* response text (stream: the deltas accumulated so far)
  tools_used,      \* extract_tool_calls(result)
  events,          \* events yielded by generate_stream, in order
  outcome,         \* what the caller got back
  user_saved,      \* save_message returned for the turn's user message
  steps,           \* the handler's steps so far, in order, each with its result
  reply,           \* the ChatResponse chat returned (<<>> when none)
  \* --- one call of a tool of agents/tools.py, and the graph client it uses
  tool,            \* which tool function is called
  tpc,             \* position of the tool function
  targ,            \* its input_data
  tfault,          \* the steps of the call that failed
  embedding,       \* what generate_embedding returned (<<>> before it returns)
  engine_out,      \* what the engine (SQL query or graphiti.search) returned
  engine_queries,  \* number of queries issued to the engine by the call
  tout,            \* return value of the tool function
  initialized,     \* GraphitiClient._initialized
  graphiti,        \* GraphitiClient.graphiti: "None" or "handle"
  \* --- tasks that call initialize() and close() of the shared GraphitiClient
  cpc,             \* where each task is: idle, or suspended in an await
  ccalls,          \* number of calls each task has made
  handles          \* Graphiti objects constructed since the last close() ended

comprehensiveVars ==
  <<use_vector, use_graph, spc, search_results, comprehensive_results>>

searchVars ==
  <<query, hpc, vectorCall, graphCall, vector_base, vector_results,
    graph_results, hybrid_out, comprehensiveVars>>

storeVars == <<sessions, messages, tool_usage, clock>>

turnVars ==
  <<tx, pc, mode, req_session_id, context, agent_calls, full_response,
    tools_used, events, outcome, user_saved, steps, reply>>

clientVars == <<cpc, ccalls, handles>>

toolVars ==
  <<tool, tpc, targ, tfault, embedding, engine_out, engine_queries, tout,
    initialized, graphiti, clientVars>>

vars == <<searchVars, storeVars, turnVars, toolVars>>

\* Locals and results not yet assigned.
NoValue == <<>>

\* ------------------------------------------------- hybrid_search_tool

\* dict[key] = value
SetKey(d, key, value) ==
  [k \in DOMAIN d \cup {key} |-> IF k = key THEN value ELSE d[k]]

\* The query's lowercase whitespace-separated keywords.
Keywords(q) == {Split(Lower(q))[i] : i \in 1..Len(Split(Lower(q)))}

\* Variant: the fact text is compared without .lower().
FactMatches_CaseSensitive(gr, q) ==
  \E keyword \in Keywords(q) : Contains(keyword, gr.fact)

\* any(keyword in gr.fact.lower() for keyword in query.lower().split())
FactMatches(gr, q) == \E keyword \in Keywords(q) : Contains(keyword, Lower(gr.fact))

\* [gr.fact for gr in graph_results if any(...)]
RelevantFacts(grs, q) ==
  LET hits == SelectSeq(grs, LAMBDA gr : FactMatches(gr, q))
  IN  [i \in 1..Len(hits) |-> hits[i].fact]

\* Variant: only the chunks that received a graph_context are returned.
FuseResults_OnlyEnhanced(vrs, grs, q) ==
  LET relevant_facts == RelevantFacts(grs, q)
  IN  IF relevant_facts # <<>>
        THEN [i \in 1..Len(vrs) |->
                [vrs[i] EXCEPT
                   !.metadata = SetKey(@, "graph_context", Take(relevant_facts, 3))]]
        ELSE <<>>

\* Variant: the relevant facts are attached without the [:3] slice.
FuseResults_NoCap(vrs, grs, q) ==
  [i \in 1..Len(vrs) |->
     LET relevant_facts == RelevantFacts(grs, q)
     IN  IF relevant_facts # <<>>
           THEN [vrs[i] EXCEPT
                   !.metadata = SetKey(@, "graph_context", relevant_facts)]
           ELSE vrs[i]]

\* Variant: graph_context is assigned without the `if relevant_facts` test.
FuseResults_AlwaysAnnotate(vrs, grs, q) ==
  [i \in 1..Len(vrs) |->
     [vrs[i] EXCEPT
        !.metadata = SetKey(@, "graph_context", Take(RelevantFacts(grs, q), 3))]]

\* Variant: only the first chunk is given the graph_context.
FuseResults_FirstChunkOnly(vrs, grs, q) ==
  [i \in 1..Len(vrs) |->
     LET relevant_facts == RelevantFacts(grs, q)
     IN  IF relevant_facts # <<>> /\ i = 1
           THEN [vrs[i] EXCEPT
                   !.metadata = SetKey(@, "graph_context", Take(relevant_facts, 3))]
           ELSE vrs[i]]

\* The enhancement loop over vector_results.
FuseResults(vrs, grs, q) ==
  [i \in 1..Len(vrs) |->
     LET relevant_facts == RelevantFacts(grs, q)
     IN  IF relevant_facts # <<>>
           THEN [vrs[i] EXCEPT
                   !.metadata = SetKey(@, "graph_context", Take(relevant_facts, 3))]
           ELSE vrs[i]]

\* perform_comprehensive_search is not called.
ComprehensiveParked ==
  /\ use_vector = FALSE
  /\ use_graph = FALSE
  /\ spc = "off"
  /\ search_results = <<>>
  /\ comprehensive_results = <<>>

\* No task calls the shared graph client outside the tool functions.
ClientTasksParked ==
  /\ cpc = <<>>
  /\ ccalls = <<>>
  /\ handles = 0

\* No tool function is called on its own in the search and turn
\* specifications.
ToolsParked ==
  /\ ClientTasksParked
  /\ tool = "off"
  /\ tpc = "off"
  /\ targ = <<>>
  /\ tfault = {}
  /\ embedding = <<>>
  /\ engine_out = <<>>
  /\ engine_queries = 0
  /\ tout = <<>>
  /\ initialized = FALSE
  /\ graphiti = "None"

\* The chat handlers are not running in the search specification.
TurnsParked ==
  /\ sessions = {}
  /\ messages = <<>>
  /\ tool_usage = {}
  /\ clock = 0
  /\ tx = <<>>
  /\ pc = <<>>
  /\ mode = <<>>
  /\ req_session_id = <<>>
  /\ context = <<>>
  /\ agent_calls = <<>>
  /\ full_response = <<>>
  /\ tools_used = <<>>
  /\ events = <<>>
  /\ outcome = <<>>
  /\ steps = <<>>
  /\ reply = <<>>
  /\ user_saved = <<>>

InitSearch ==
  /\ TurnsParked
  /\ ToolsParked
  /\ ComprehensiveParked
  /\ query \in Queries
  /\ hpc = "start"
  /\ vectorCall = "idle"
  /\ graphCall = "idle"
  /\ vector_base = NoValue
  /\ vector_results = NoValue
  /\ graph_results = NoValue
  /\ hybrid_out = NoValue

\* hybrid_search_tool runs up to `await vector_search_tool(...)`.
HybridCallVector ==
  /\ hpc = "start"
  /\ hpc' = "vector"
  /\ vectorCall' = "inflight"
  /\ UNCHANGED <<query, graphCall, vector_base, vector_results, graph_results,
                 hybrid_out,
               comprehensiveVars, storeVars, turnVars, toolVars>>

\* vector_search_tool returns its rows; hybrid_search_tool goes on to
\* `await graph_search_tool(...)`.
VectorReturn ==
  /\ hpc = "vector"
  /\ vectorCall = "inflight"
  /\ \E cs \in ChunkLists :
       /\ vector_base' = cs
       /\ vector_results' = cs
  /\ vectorCall' = "returned"
  /\ graphCall' = "inflight"
  /\ hpc' = "graph"
  /\ UNCHANGED <<query, graph_results, hybrid_out,
               comprehensiveVars, storeVars, turnVars, toolVars>>

\* Opening the session or the SQL query raises inside vector_search_tool:
\* its except clause returns []. (A failing embedding provider does not
\* get here: generate_embedding returns the zero vector, see SpecTools.)
VectorFail ==
  /\ hpc = "vector"
  /\ vectorCall = "inflight"
  /\ vector_base' = <<>>
  /\ vector_results' = <<>>
  /\ vectorCall' = "failed"
  /\ graphCall' = "inflight"
  /\ hpc' = "graph"
  /\ UNCHANGED <<query, graph_results, hybrid_out,
               comprehensiveVars, storeVars, turnVars, toolVars>>

\* graph_search_tool returns the engine's facts.
GraphReturn ==
  /\ hpc = "graph"
  /\ graphCall = "inflight"
  /\ \E fs \in FactLists : graph_results' = fs
  /\ graphCall' = "returned"
  /\ hpc' = "fuse"
  /\ UNCHANGED <<query, vectorCall, vector_base, vector_results, hybrid_out,
               comprehensiveVars, storeVars, turnVars, toolVars>>

\* Variant: graph_search_tool lets the exception escape; the except clause
\* of hybrid_search_tool then returns [].
GraphFail_Propagates ==
  /\ hpc = "graph"
  /\ graphCall = "inflight"
  /\ graph_results' = <<>>
  /\ graphCall' = "failed"
  /\ hybrid_out' = <<>>
  /\ hpc' = "done"
  /\ UNCHANGED <<query, vectorCall, vector_base, vector_results,
               comprehensiveVars, storeVars, turnVars, toolVars>>

\* graph_client.initialize() or the engine search raises: the except
\* clause of graph_search_tool (or of GraphitiClient.search) returns [].
GraphFail ==
  /\ hpc = "graph"
  /\ graphCall = "inflight"
  /\ graph_results' = <<>>
  /\ graphCall' = "failed"
  /\ hpc' = "fuse"
  /\ UNCHANGED <<query, vectorCall, vector_base, vector_results, hybrid_out,
               comprehensiveVars, storeVars, turnVars, toolVars>>

\* The enhancement loop and `return vector_results`.
HybridFuse ==
  /\ hpc = "fuse"
  /\ vector_results' = FuseResults(vector_results, graph_results, query)
  /\ hybrid_out' = vector_results'
  /\ hpc' = "done"
  /\ UNCHANGED <<query, vectorCall, graphCall, vector_base, graph_results,
               comprehensiveVars, storeVars, turnVars, toolVars>>

NextSearch ==
  \/ HybridCallVector
  \/ VectorReturn
  \/ VectorFail
  \/ GraphReturn
  \/ GraphFail
  \/ HybridFuse

SpecSearch == InitSearch /\ [][NextSearch]_vars

\* ------------------------------------------- perform_comprehensive_search

\* What asyncio.gather(..., return_exceptions=True) holds for one task:
\* not finished yet, the list the task returned, or the exception it
\* raised.
Pending == [state |-> "pending", value |-> <<>>]

Returned(list) == [state |-> "returned", value |-> list]

Raised == [state |-> "raised", value |-> <<>>]

\* isinstance(x, Exception)
IsException(x) == x.state = "raised"

\* search_methods_used, which is also the order of the tasks.
MethodsUsed(uv, ug) ==
  (IF uv THEN <<"vector_search">> ELSE <<>>)
    \o (IF ug THEN <<"graph_search">> ELSE <<>>)

\* The lists a task of the given method can return.
TaskLists(method) ==
  IF method = "vector_search" THEN ChunkLists ELSE FactLists

\* The state before a call of perform_comprehensive_search.
InitComprehensive ==
  /\ TurnsParked
  /\ ToolsParked
  /\ query \in {q \in Queries : Len(q) <= 1}
  /\ hpc = "off"
  /\ vectorCall = "idle"
  /\ graphCall = "idle"
  /\ vector_base = NoValue
  /\ vector_results = NoValue
  /\ graph_results = NoValue
  /\ hybrid_out = NoValue
  /\ use_vector \in BOOLEAN
  /\ use_graph \in BOOLEAN
  /\ spc = "start"
  /\ search_results = <<>>
  /\ comprehensive_results = <<>>

\* The dict is created, the tasks are collected and handed to
\* asyncio.gather (when there are any).
ComprehensiveStart ==
  /\ spc = "start"
  /\ comprehensive_results' =
       [query |-> query, vector_results |-> <<>>, graph_results |-> <<>>,
        total_results |-> 0,
        search_methods_used |-> MethodsUsed(use_vector, use_graph)]
  /\ search_results' =
       [i \in 1..Len(MethodsUsed(use_vector, use_graph)) |-> Pending]
  /\ spc' = "gather"
  /\ UNCHANGED <<use_vector, use_graph, query, hpc, vectorCall, graphCall,
                 vector_base, vector_results, graph_results, hybrid_out,
                 storeVars, turnVars, toolVars>>

\* A task given to gather returns its list.
TaskReturn(i) ==
  /\ spc = "gather"
  /\ i \in 1..Len(search_results)
  /\ search_results[i] = Pending
  /\ \E list \in TaskLists(comprehensive_results.search_methods_used[i]) :
       search_results' = [search_results EXCEPT ![i] = Returned(list)]
  /\ UNCHANGED <<use_vector, use_graph, spc, comprehensive_results, query, hpc,
                 vectorCall, graphCall, vector_base, vector_results,
                 graph_results, hybrid_out, storeVars, turnVars, toolVars>>

\* A task given to gather raises: gather, called with
\* return_exceptions=True, keeps the exception as the task's result. (The
\* two tool functions catch Exception in their own bodies, so this is an
\* exception that gets past those handlers; the statements after gather
\* test every result for it.)
TaskRaise(i) ==
  /\ spc = "gather"
  /\ i \in 1..Len(search_results)
  /\ search_results[i] = Pending
  /\ search_results' = [search_results EXCEPT ![i] = Raised]
  /\ UNCHANGED <<use_vector, use_graph, spc, comprehensive_results, query, hpc,
                 vectorCall, graphCall, vector_base, vector_results,
                 graph_results, hybrid_out, storeVars, turnVars, toolVars>>

\* The statements after gather: result_index starts at 0 and is advanced
\* only inside the branch that accepts the vector result.
CombineResults(uv, ug, sr, res) ==
  LET vector_taken == sr # <<>> /\ uv /\ ~IsException(sr[1])
      r1 == IF vector_taken
              THEN [res EXCEPT !.vector_results = sr[1].value]
              ELSE res
      result_index == IF vector_taken THEN 1 ELSE 0
      graph_taken == /\ sr # <<>>
                     /\ ug
                     /\ result_index < Len(sr)
                     /\ ~IsException(sr[result_index + 1])
      r2 == IF graph_taken
              THEN [r1 EXCEPT !.graph_results = sr[result_index + 1].value]
              ELSE r1
  IN  [r2 EXCEPT !.total_results = Len(r2.vector_results) + Len(r2.graph_results)]

\* gather returns when every task is finished; the results are combined
\* and the dict is returned.
ComprehensiveFinish ==
  /\ spc = "gather"
  /\ \A i \in 1..Len(search_results) : search_results[i] # Pending
  /\ comprehensive_results' =
       CombineResults(use_vector, use_graph, search_results, comprehensive_results)
  /\ spc' = "done"
  /\ UNCHANGED <<use_vector, use_graph, search_results, query, hpc, vectorCall,
                 graphCall, vector_base, vector_results, graph_results,
                 hybrid_out, storeVars, turnVars, toolVars>>

NextComprehensive ==
  \/ ComprehensiveStart
  \/ \E i \in 1..2 : TaskReturn(i)
  \/ \E i \in 1..2 : TaskRaise(i)
  \/ ComprehensiveFinish

SpecComprehensive == InitComprehensive /\ [][NextComprehensive]_vars

\* The hybrid_search tool of the agent: what it hands to the agent for the
\* chunks hybrid_search_tool returned (content, source and title left out).
HybridSearch(results) ==
  [i \in 1..Len(results) |->
     [score |-> results[i].score,
      metadata |-> results[i].metadata,
      graph_context |->
        IF "graph_context" \in DOMAIN results[i].metadata
          THEN results[i].metadata["graph_context"]
          ELSE <<>>]]

\* ------------------------------------------------ the tool functions

MaxTimeline == 3

MaxDepth == 2

\* Python None; also what a dict's .get returns for a missing key.
None == <<>>

ToolFunctions ==
  {"vector_search_tool", "graph_search_tool",
   "get_entity_relationships_tool", "get_entity_timeline_tool"}

GraphTools == ToolFunctions \ {"vector_search_tool"}

\* input_data.query: a blank query and a query with text.
ToolQueries == {<<" ">>, <<"A">>}

Entities == {"alice"}

\* input_data.start_date / end_date: absent, an ISO date, not an ISO date.
DateStrings == {"", "2023-01-01", "yesterday"}

\* datetime.fromisoformat(s) raises ValueError.
FromIsoformatRaises(s) == s \notin {"2023-01-01"}

ToolInputs(f) ==
  CASE f = "vector_search_tool" -> {[query |-> q] : q \in ToolQueries}
    [] f = "graph_search_tool" -> {[query |-> q] : q \in ToolQueries}
    [] f = "get_entity_relationships_tool" ->
         {[entity_name |-> e, depth |-> d] : e \in Entities, d \in 1..MaxDepth}
    [] f = "get_entity_timeline_tool" ->
         {[entity_name |-> e, start_date |-> s, end_date |-> d] :
            e \in Entities, s \in DateStrings, d \in DateStrings}

\* Years of the valid_at datetimes the engine reports: before, at and after
\* the year of the sort's default key.
Years == {1850, 1900, 2023}

\* result.valid_at of an engine result: None or a datetime (<<year>>).
EngineValidAts == {None} \cup {<<y>> : y \in Years}

\* What graphiti.search returns: edges with a fact text, a UUID and
\* valid_at (invalid_at and source_node_uuid are left out).
EngineResults ==
  UNION { { [i \in 1..n |->
              [fact |-> "fact-" \o ToString(i), uuid |-> i, valid_at |-> va[i]]]
            : va \in [1..n -> EngineValidAts] }
          : n \in 0..MaxTimeline }

Digit(n) ==
  CASE n = 0 -> "0" [] n = 1 -> "1" [] n = 2 -> "2" [] n = 3 -> "3"
    [] n = 4 -> "4" [] n = 5 -> "5" [] n = 6 -> "6" [] n = 7 -> "7"
    [] n = 8 -> "8" [] n = 9 -> "9"

\* str(datetime): "YYYY-MM-DD HH:MM:SS...". The model keeps the four year
\* digits and the separator after the date, which is a space.
StrDatetime(dt) ==
  LET y == dt[1]
  IN  <<Digit(y \div 1000), Digit((y \div 100) % 10), Digit((y \div 10) % 10),
        Digit(y % 10), " ">>

\* str(result.valid_at) if result.valid_at else None
StrOrNone(dt) == IF dt = None THEN None ELSE StrDatetime(dt)

\* str(result.uuid)
StrUuid(u) == "uuid-" \o ToString(u)

\* Code point of a character (ord).
Ord(c) ==
  CASE c = " " -> 32
    [] c = "0" -> 48 [] c = "1" -> 49 [] c = "2" -> 50 [] c = "3" -> 51
    [] c = "4" -> 52 [] c = "5" -> 53 [] c = "6" -> 54 [] c = "7" -> 55
    [] c = "8" -> 56 [] c = "9" -> 57
    [] c = "T" -> 84

\* Python's a < b on str: lexicographic by code point.
RECURSIVE StrLess(_, _)
StrLess(a, b) ==
  IF b = <<>> THEN FALSE
  ELSE IF a = <<>> THEN TRUE
  ELSE IF Ord(a[1]) # Ord(b[1]) THEN Ord(a[1]) < Ord(b[1])
  ELSE StrLess(Tail(a), Tail(b))

\* '1900-01-01T00:00:00Z', kept as the year digits and the separator "T".
DefaultSortKey == <<"1", "9", "0", "0", "T">>

\* key=lambda x: x.get('valid_at') or '1900-01-01T00:00:00Z'
SortKey(x) == IF x.valid_at = None THEN DefaultSortKey ELSE x.valid_at

\* Variant: an entry goes before the entries whose key equals its own.
RECURSIVE InsertDescending_BeforeEqual(_, _)
InsertDescending_BeforeEqual(sorted, x) ==
  IF sorted = <<>> THEN <<x>>
  ELSE IF ~StrLess(SortKey(x), SortKey(Head(sorted))) THEN <<x>> \o sorted
  ELSE <<Head(sorted)>> \o InsertDescending_BeforeEqual(Tail(sorted), x)

\* list.sort(key=..., reverse=True) is stable: an entry goes after every
\* entry whose key is not smaller than its own.
RECURSIVE InsertDescending(_, _)
InsertDescending(sorted, x) ==
  IF sorted = <<>> THEN <<x>>
  ELSE IF StrLess(SortKey(Head(sorted)), SortKey(x)) THEN <<x>> \o sorted
  ELSE <<Head(sorted)>> \o InsertDescending(Tail(sorted), x)

RECURSIVE SortTimeline(_)
SortTimeline(timeline) ==
  IF timeline = <<>> THEN <<>>
  ELSE InsertDescending(SortTimeline(SubSeq(timeline, 1, Len(timeline) - 1)),
                        timeline[Len(timeline)])

\* The dict built for one engine result.
ResultDict(result) ==
  [fact |-> result.fact, uuid |-> StrUuid(result.uuid),
   valid_at |-> StrOrNone(result.valid_at)]

\* GraphitiClient.search on success: results[:limit] as dicts, limit = 10;
\* graph_search_tool turns each into a GraphSearchResult with the same
\* fields.
ClientSearch(results) ==
  LET limited == Take(results, 10)
  IN  [i \in 1..Len(limited) |-> ResultDict(limited[i])]

\* settings.embedding_dimensions
embedding_dimensions == 1536

\* [0.0] * settings.embedding_dimensions
ZeroVector == [i \in 1..embedding_dimensions |-> 0]

\* response.data[0].embedding: the provider's vector for a text (its
\* components are not looked at).
ProviderVector == [i \in 1..embedding_dimensions |-> 1]

\* RelatedEntities with the depth of the call replaced by a fixed one.
RelatedEntities_FixedDepth(entity_name, depth, results) ==
  [central_entity |-> entity_name,
   related_facts |-> [i \in 1..Len(results) |-> ResultDict(results[i])],
   search_method |-> "graphiti_semantic_search",
   depth |-> 1]

\* GraphitiClient.get_related_entities on success.
RelatedEntities(entity_name, depth, results) ==
  [central_entity |-> entity_name,
   related_facts |-> [i \in 1..Len(results) |-> ResultDict(results[i])],
   search_method |-> "graphiti_semantic_search",
   depth |-> depth]

\* GraphitiClient.get_related_entities when graphiti.search raised.
RelatedEntitiesError(entity_name) ==
  [central_entity |-> entity_name, related_facts |-> <<>>, error |-> "str(e)"]

\* get_entity_relationships_tool when initialize raised.
RelationshipsToolError(entity_name, depth) ==
  [central_entity |-> entity_name, related_entities |-> <<>>,
   relationships |-> <<>>, depth |-> depth, error |-> "str(e)"]

\* GraphitiClient.get_entity_timeline on success.
EntityTimeline(results) ==
  SortTimeline([i \in 1..Len(results) |-> ResultDict(results[i])])

\* ------------------------------------------------------- chat turns: data

\* The requests to chat / chat_stream in a behaviour: two, which run in
\* every interleaving of their awaits (one after the other included).
Turns == {1, 2}

\* Session ids a client can send; "" stands for an absent session_id.
ClientSessionIds == {"s1"}

RequestSessionIds == ClientSessionIds \cup {""}

\* str(uuid.uuid4()) drawn by turn t: never equal to another id.
FreshUuid(t) == "uuid-" \o ToString(t)

\* The local session_id of get_or_create_session / chat / chat_stream.
SessionIdOf(t) ==
  IF req_session_id[t] = "" THEN FreshUuid(t) ELSE req_session_id[t]

\* request.message of turn t; text is a sequence of tokens.
RequestMessage(t) == <<"q" \o ToString(t)>>

\* The k-th text delta the model streams; result.data of a non-streaming run.
DeltaText(k) == <<"d" \o ToString(k)>>

FinalText == <<"answer">>

ToolNames == {"vector_search", "graph_search"}

\* The tool calls an agent run can make, in call order.
AgentCallLists == SeqsUpTo(ToolNames, MaxTools)

\* An AsyncSession with nothing pending.
\* began is the transaction's start time, 0 while no transaction is open.
EmptyTx ==
  [sessions |-> {}, messages |-> <<>>, tool_usage |-> {}, began |-> 0]

\* The parts of result.all_messages(), in order: the user prompt; for each
\* tool call the model's ToolCallPart and the ToolReturnPart that answers
\* it; the final TextPart. Only the tool parts have a tool_name attribute,
\* and only the ToolCallPart has args.
AllMessageParts(calls) ==
  [i \in 1..(2 * Len(calls) + 2) |->
     IF i = 1 THEN [part_kind |-> "user-prompt"]
     ELSE IF i = 2 * Len(calls) + 2 THEN [part_kind |-> "text"]
     ELSE IF i % 2 = 0
       THEN [part_kind |-> "tool-call", tool_name |-> calls[i \div 2],
             args |-> [k \in {"query"} |-> "text"],
             tool_call_id |-> "call-" \o ToString(i \div 2)]
       ELSE [part_kind |-> "tool-return", tool_name |-> calls[i \div 2],
             tool_call_id |-> "call-" \o ToString(i \div 2)]]

\* extract_tool_calls: one entry per part that has a non-empty tool_name.
ExtractToolCalls(calls) ==
  LET parts == AllMessageParts(calls)
      hits == SelectSeq(parts,
                LAMBDA part : "tool_name" \in DOMAIN part /\ part.tool_name # "")
  IN  [i \in 1..Len(hits) |->
         [tool_name |-> hits[i].tool_name,
          args |-> IF "args" \in DOMAIN hits[i] THEN hits[i].args ELSE EmptyDict,
          tool_call_id |-> hits[i].tool_call_id]]

\* --------------------------------------------------- chat turns: the store

\* Rows a SELECT ... WHERE session_id = sid of turn t returns: what is
\* committed plus what the turn's own transaction has flushed.
VisibleSessions(t, sid) ==
  {r \in sessions \cup tx[t].sessions : r.session_id = sid}

\* Messages a SELECT of turn t over conversation rows convs returns, in
\* insertion order.
VisibleMessages(t, convs) ==
  SelectSeq(messages \o tx[t].messages,
            LAMBDA m : \E r \in convs : r.id = m.conversation_id)

\* The orders in which ORDER BY created_at DESC LIMIT limit can return
\* the rows: rows with equal created_at come in an order SQL leaves open.
RECURSIVE OrderByCreatedAtDesc(_, _)
OrderByCreatedAtDesc(rows, limit) ==
  IF rows = {} \/ limit = 0 THEN {<<>>}
  ELSE LET newest == {m \in rows : \A o \in rows : o.created_at <= m.created_at}
       IN  UNION { {<<m>> \o rest :
                      rest \in OrderByCreatedAtDesc(rows \ {m}, limit - 1)}
                   : m \in newest }

\* reversed(s)
Reversed(s) == [i \in 1..Len(s) |-> s[Len(s) + 1 - i]]

\* get_conversation_context: the 10 newest messages of the session by
\* created_at, reversed, as {role, content, timestamp}. One element per
\* order the query can return.
ConversationContexts(t) ==
  LET all == VisibleMessages(t, VisibleSessions(t, SessionIdOf(t)))
      rows == {all[i] : i \in 1..Len(all)}
  IN  { [i \in 1..Len(msgs) |->
           [role |-> Reversed(msgs)[i].role,
            content |-> Reversed(msgs)[i].content,
            timestamp |-> Reversed(msgs)[i].created_at]]
        : msgs \in OrderByCreatedAtDesc(rows, 10) }

\* ORDER BY created_at in descending order instead of ascending.
OrderByCreatedAt_Descending(rows) ==
  OrderByCreatedAtDesc(rows, Cardinality(rows))

\* The orders in which ORDER BY created_at (ascending, no limit) can return
\* the rows.
OrderByCreatedAt(rows) ==
  {Reversed(msgs) : msgs \in OrderByCreatedAtDesc(rows, Cardinality(rows))}

\* get_session_info(sid) run now: one element per response the handler can
\* give. 404 when no session row matches; 500 when scalar_one_or_none()
\* finds more than one.
SessionInfos(sid) ==
  LET found == {r \in sessions : r.session_id = sid}
  IN  IF found = {} THEN {[status |-> 404]}
      ELSE IF Cardinality(found) > 1 THEN {[status |-> 500]}
      ELSE LET session == CHOOSE r \in found : TRUE
               rows == {messages[i] : i \in {k \in 1..Len(messages) :
                          messages[k].conversation_id = session.id}}
           IN  { [status |-> 200,
                  session_id |-> session.session_id,
                  created_at |-> session.created_at,
                  last_activity |-> session.last_activity,
                  message_count |-> Len(msgs),
                  messages |-> [i \in 1..Len(msgs) |->
                                  [id |-> msgs[i].id,
                                   role |-> msgs[i].role,
                                   content |-> msgs[i].content,
                                   tools_used |-> msgs[i].tools_used,
                                   created_at |-> msgs[i].created_at]]]
                 : msgs \in OrderByCreatedAt(rows) }

\* context[-6:]
LastSix(ctx) == SubSeq(ctx, IF Len(ctx) > 6 THEN Len(ctx) - 5 ELSE 1, Len(ctx))

\* "\n".join(f"{msg['role']}: {msg['content']}" for msg in msgs), as tokens.
RECURSIVE ContextStr(_)
ContextStr(msgs) ==
  IF msgs = <<>> THEN <<>>
  ELSE <<Head(msgs).role \o ":">> \o Head(msgs).content
         \o (IF Len(msgs) > 1 THEN <<"\n">> ELSE <<>>) \o ContextStr(Tail(msgs))

\* full_prompt of chat / generate_stream for a context and a message.
BuildPrompt(ctx, message) ==
  IF ctx = <<>>
    THEN message
    ELSE <<"Previous conversation:", "\n">> \o ContextStr(LastSix(ctx))
           \o <<"\n", "\n", "Current question:">> \o message

FullPrompt(t) == BuildPrompt(context[t], RequestMessage(t))

\* SaveMessageTx writing a ToolUsage row for the first entry of tools only.
SaveMessageTx_FirstToolOnly(t, role, content, tools) ==
  LET conversation == CHOOSE r \in VisibleSessions(t, SessionIdOf(t)) : TRUE
      message == [id |-> <<t, role>>,
                  conversation_id |-> conversation.id,
                  role |-> role,
                  content |-> content,
                  tools_used |-> tools,
                  created_at |-> tx[t].began]
  IN  [tx[t] EXCEPT
         !.messages = Append(@, message),
         !.tool_usage = @ \cup
            {[message_id |-> message.id, seq |-> i,
              tool_name |-> tools[i].tool_name,
              tool_args |-> tools[i].args] : i \in 1..Len(Take(tools, 1))}]

\* save_message after scalar_one() found the conversation: the message is
\* added and flushed, then one ToolUsage row per entry of tools is added.
SaveMessageTx(t, role, content, tools) ==
  LET conversation == CHOOSE r \in VisibleSessions(t, SessionIdOf(t)) : TRUE
      message == [id |-> <<t, role>>,
                  conversation_id |-> conversation.id,
                  role |-> role,
                  content |-> content,
                  tools_used |-> tools,
                  created_at |-> tx[t].began]   \* server_default=func.now()
  IN  [tx[t] EXCEPT
         !.messages = Append(@, message),
         !.tool_usage = @ \cup
            {[message_id |-> message.id, seq |-> i,
              tool_name |-> tools[i].tool_name,
              tool_args |-> tools[i].args] : i \in 1..Len(tools)}]

\* scalar_one() returns: exactly one conversation row matches.
OneConversation(t) == Cardinality(VisibleSessions(t, SessionIdOf(t))) = 1

\* A stream event.
Event(type, content) == [type |-> type, content |-> content]

\* hybrid_search_tool is not running in the turn specification.
SearchParked ==
  /\ ComprehensiveParked
  /\ query = <<>>
  /\ hpc = "off"
  /\ vectorCall = "idle"
  /\ graphCall = "idle"
  /\ vector_base = NoValue
  /\ vector_results = NoValue
  /\ graph_results = NoValue
  /\ hybrid_out = NoValue

Init ==
  /\ SearchParked
  /\ ToolsParked
  /\ sessions = {}
  /\ messages = <<>>
  /\ tool_usage = {}
  /\ clock = 0
  /\ tx = [t \in Turns |-> EmptyTx]
  /\ pc = [t \in Turns |-> "new"]
  /\ mode \in [Turns -> {"chat", "stream"}]
  /\ req_session_id \in [Turns -> RequestSessionIds]
  /\ context = [t \in Turns |-> <<>>]
  /\ agent_calls = [t \in Turns |-> <<>>]
  /\ full_response = [t \in Turns |-> <<>>]
  /\ tools_used = [t \in Turns |-> <<>>]
  /\ events = [t \in Turns |-> <<>>]
  /\ outcome = [t \in Turns |-> "pending"]
  /\ user_saved = [t \in Turns |-> FALSE]
  /\ steps = [t \in Turns |-> <<>>]
  /\ reply = [t \in Turns |-> <<>>]

\* ------------------------------------------------ chat turns: the handlers

\* An exception reaches the handler's except clause. In chat_stream the
\* call of get_or_create_session is outside generate_stream: its failure
\* is answered with HTTPException(500) and get_db rolls the session back.
ToExcept(t) ==
  IF mode[t] = "stream" /\ pc[t] = "new"
    THEN /\ pc' = [pc EXCEPT ![t] = "done"]
         /\ outcome' = [outcome EXCEPT ![t] = "http500"]
         /\ tx' = [tx EXCEPT ![t] = EmptyTx]
    ELSE /\ pc' = [pc EXCEPT ![t] = "except"]
         /\ UNCHANGED <<outcome, tx>>

\* The handler of turn t has run the named step, which returned (ok) or
\* raised.
Step(t, name, ok) ==
  steps' = [steps EXCEPT ![t] = Append(@, [step |-> name, ok |-> ok])]

\* Variant: the new row is given a generated identifier whatever the
\* request carries.
NewConversation_FreshId(t) ==
  [id |-> t, session_id |-> FreshUuid(t),
   created_at |-> clock + 1, last_activity |-> clock + 1]

\* The AgentConversation row get_or_create_session adds for turn t. Its
\* created_at and last_activity are the server default now(): the start
\* time of the transaction the lookup of this call opens.
NewConversation(t) ==
  [id |-> t, session_id |-> SessionIdOf(t),
   created_at |-> clock + 1, last_activity |-> clock + 1]

\* GetOrCreateSession without the lookup: a row is added on every call.
GetOrCreateSession_AlwaysCreates(t) ==
  /\ pc[t] = "new"
  /\ \/ /\ tx' = [tx EXCEPT
                    ![t].began = clock + 1,
                    ![t].sessions =
                      @ \cup {NewConversation(t)}]
        /\ clock' = clock + 1
        /\ pc' = [pc EXCEPT ![t] = "session"]
        /\ Step(t, "session", TRUE)
        /\ UNCHANGED outcome
     \/ /\ ToExcept(t)
        /\ Step(t, "session", FALSE)
        /\ UNCHANGED clock
  /\ UNCHANGED <<toolVars, searchVars, sessions, messages, tool_usage, mode,
                 req_session_id, reply, context, agent_calls, full_response,
                 tools_used, events, user_saved>>

\* get_or_create_session: look the session up, add and flush a new
\* AgentConversation when none is found. The lookup is the first statement
\* of the request's AsyncSession: it opens the transaction, whose start
\* time is what now() returns until the transaction ends.
GetOrCreateSession(t) ==
  /\ pc[t] = "new"
  /\ LET found == VisibleSessions(t, SessionIdOf(t))
     IN  \/ /\ Cardinality(found) <= 1          \* scalar_one_or_none()
            /\ tx' = [tx EXCEPT
                        ![t].began = clock + 1,
                        ![t].sessions =
                          IF found = {}
                            THEN @ \cup {NewConversation(t)}
                            ELSE @]
            /\ clock' = clock + 1
            /\ pc' = [pc EXCEPT ![t] = "session"]
            /\ Step(t, "session", TRUE)
            /\ UNCHANGED outcome
         \/ /\ ToExcept(t)                       \* the lookup or the flush raises
            /\ Step(t, "session", FALSE)
            /\ UNCHANGED clock
  /\ UNCHANGED <<toolVars, searchVars, sessions, messages, tool_usage, mode,
                 req_session_id, reply, context, agent_calls, full_response,
                 tools_used, events, user_saved>>

\* generate_stream yields the 'session' event; then (both handlers)
\* get_conversation_context runs.
GetContext(t) ==
  /\ pc[t] = "session"
  /\ events' = [events EXCEPT ![t] =
                  IF mode[t] = "stream"
                    THEN Append(@, Event("session", SessionIdOf(t)))
                    ELSE @]
  /\ \/ /\ \E ctx \in ConversationContexts(t) :
             context' = [context EXCEPT ![t] = ctx]
        /\ pc' = [pc EXCEPT ![t] = "context"]
        /\ Step(t, "context", TRUE)
        /\ UNCHANGED <<outcome, tx>>
     \/ /\ ToExcept(t)
        /\ Step(t, "context", FALSE)
        /\ UNCHANGED context
  /\ UNCHANGED <<clock, toolVars, searchVars, storeVars, mode, req_session_id, reply, agent_calls,
                 full_response, tools_used, user_saved>>

\* save_message(role="user", content=request.message).
SaveUserMessage(t) ==
  /\ pc[t] = "context"
  /\ \/ /\ OneConversation(t)
        /\ tx' = [tx EXCEPT ![t] = SaveMessageTx(t, "user", RequestMessage(t), <<>>)]
        /\ user_saved' = [user_saved EXCEPT ![t] = TRUE]
        /\ pc' = [pc EXCEPT ![t] = "user_saved"]
        /\ Step(t, "user_save", TRUE)
        /\ UNCHANGED outcome
     \/ /\ ToExcept(t)                           \* scalar_one() or the flush raises
        /\ Step(t, "user_save", FALSE)
        /\ UNCHANGED user_saved
  /\ UNCHANGED <<clock, toolVars, searchVars, storeVars, mode, req_session_id, reply, context,
                 agent_calls, full_response, tools_used, events>>

\* The text events generate_stream has yielded so far.
TextEvents(t) == SelectSeq(events[t], LAMBDA e : e.type = "text")

\* generate_stream: the model streams one text part or delta; it is yielded
\* as a 'text' event and the generator is suspended there until the caller
\* asks for the next event.
AgentDelta(t) ==
  /\ pc[t] = "user_saved"
  /\ mode[t] = "stream"
  /\ Len(TextEvents(t)) < MaxDeltas
  /\ LET delta_content == DeltaText(Len(TextEvents(t)) + 1)
     IN  events' = [events EXCEPT ![t] = Append(@, Event("text", delta_content))]
  /\ pc' = [pc EXCEPT ![t] = "yielded"]
  /\ UNCHANGED <<clock, toolVars, searchVars, storeVars, tx, mode, req_session_id, reply, context,
                 agent_calls, full_response, tools_used, outcome, user_saved, steps>>

\* Variant: the generator resumes without adding the delta it yielded to
\* full_response.
ResumeAfterText_DropsDelta(t) ==
  /\ pc[t] = "yielded"
  /\ pc' = [pc EXCEPT ![t] = "user_saved"]
  /\ UNCHANGED <<clock, toolVars, searchVars, storeVars, tx, mode, req_session_id, reply, context,
                 agent_calls, full_response, tools_used, events, outcome, user_saved, steps>>

\* The caller asks for the next event: the generator resumes after the
\* yield of the 'text' event, `full_response += delta_content`, and goes
\* back to the model's stream.
ResumeAfterText(t) ==
  /\ pc[t] = "yielded"
  /\ LET delta_content == events[t][Len(events[t])].content
     IN  full_response' = [full_response EXCEPT ![t] = @ \o delta_content]
  /\ pc' = [pc EXCEPT ![t] = "user_saved"]
  /\ UNCHANGED <<clock, toolVars, searchVars, storeVars, tx, mode, req_session_id, reply, context,
                 agent_calls, tools_used, events, outcome, user_saved, steps>>

\* Variant: the agent is run right after the context is loaded, before
\* the user message is saved.
AgentFinish_WithoutUserSave(t) ==
  /\ pc[t] = "context"
  /\ \E calls \in AgentCallLists :
       LET tools == ExtractToolCalls(calls)
       IN  /\ agent_calls' = [agent_calls EXCEPT ![t] = calls]
           /\ tools_used' = [tools_used EXCEPT ![t] = tools]
           /\ events' = [events EXCEPT ![t] =
                           IF mode[t] = "stream" /\ tools # <<>>
                             THEN Append(@, Event("tools", tools))
                             ELSE @]
  /\ full_response' = [full_response EXCEPT ![t] =
                         IF mode[t] = "chat" THEN FinalText ELSE @]
  /\ pc' = [pc EXCEPT ![t] = "agent_done"]
  /\ Step(t, "agent", TRUE)
  /\ UNCHANGED <<clock, toolVars, searchVars, storeVars, tx, mode, req_session_id, reply, context,
                 outcome, user_saved>>

\* Variant: the stream yields the 'tools' event whether or not the list is
\* empty.
AgentFinish_AlwaysTools(t) ==
  /\ pc[t] = "user_saved"
  /\ \E calls \in AgentCallLists :
       LET tools == ExtractToolCalls(calls)
       IN  /\ agent_calls' = [agent_calls EXCEPT ![t] = calls]
           /\ tools_used' = [tools_used EXCEPT ![t] = tools]
           /\ events' = [events EXCEPT ![t] =
                           IF mode[t] = "stream"
                             THEN Append(@, Event("tools", tools))
                             ELSE @]
  /\ full_response' = [full_response EXCEPT ![t] =
                         IF mode[t] = "chat" THEN FinalText ELSE @]
  /\ pc' = [pc EXCEPT ![t] = "agent_done"]
  /\ Step(t, "agent", TRUE)
  /\ UNCHANGED <<clock, toolVars, searchVars, storeVars, tx, mode, req_session_id, reply, context,
                 outcome, user_saved>>

\* The agent run ends: rag_agent.run returns (chat) or the iteration is
\* exhausted (stream); extract_tool_calls runs; the stream yields the
\* 'tools' event when the list is not empty.
AgentFinish(t) ==
  /\ pc[t] = "user_saved"
  /\ \E calls \in AgentCallLists :
       LET tools == ExtractToolCalls(calls)
       IN  /\ agent_calls' = [agent_calls EXCEPT ![t] = calls]
           /\ tools_used' = [tools_used EXCEPT ![t] = tools]
           /\ events' = [events EXCEPT ![t] =
                           IF mode[t] = "stream" /\ tools # <<>>
                             THEN Append(@, Event("tools", tools))
                             ELSE @]
  /\ full_response' = [full_response EXCEPT ![t] =
                         IF mode[t] = "chat" THEN FinalText ELSE @]
  /\ pc' = [pc EXCEPT ![t] = "agent_done"]
  /\ Step(t, "agent", TRUE)
  /\ UNCHANGED <<clock, toolVars, searchVars, storeVars, tx, mode, req_session_id, reply, context,
                 outcome, user_saved>>

\* The agent run (the model call, a tool, or the conversion of its result)
\* raises.
AgentRaise(t) ==
  /\ pc[t] = "user_saved"
  /\ ToExcept(t)
  /\ Step(t, "agent", FALSE)
  /\ UNCHANGED <<clock, toolVars, searchVars, storeVars, mode, req_session_id, reply, context,
                 agent_calls, full_response, tools_used, events, user_saved>>

\* Variant: save_message commits where it flushes, so the message row is
\* visible before its ToolUsage rows are added.
SaveAssistantMessage_FlushCommits(t) ==
  /\ pc[t] = "agent_done"
  /\ OneConversation(t)
  /\ LET saved == SaveMessageTx(t, "assistant", full_response[t], tools_used[t])
     IN  /\ sessions' = sessions \cup saved.sessions
         /\ messages' = messages \o saved.messages
         /\ tool_usage' = tool_usage
         /\ tx' = [tx EXCEPT ![t] = [EmptyTx EXCEPT !.tool_usage = saved.tool_usage]]
  /\ pc' = [pc EXCEPT ![t] = "assistant_saved"]
  /\ Step(t, "assistant_save", TRUE)
  /\ UNCHANGED <<clock, toolVars, searchVars, mode, req_session_id, reply, context, agent_calls,
                 full_response, tools_used, events, outcome, user_saved>>

\* save_message(role="assistant", content=response, tools_used=tools_used).
SaveAssistantMessage(t) ==
  /\ pc[t] = "agent_done"
  /\ \/ /\ OneConversation(t)
        /\ tx' = [tx EXCEPT ![t] =
                    SaveMessageTx(t, "assistant", full_response[t], tools_used[t])]
        /\ pc' = [pc EXCEPT ![t] = "assistant_saved"]
        /\ Step(t, "assistant_save", TRUE)
        /\ UNCHANGED outcome
     \/ /\ ToExcept(t)
        /\ Step(t, "assistant_save", FALSE)
  /\ UNCHANGED <<clock, toolVars, searchVars, storeVars, mode, req_session_id, reply, context,
                 agent_calls, full_response, tools_used, events, user_saved>>

\* `await db.commit()` succeeds: everything the session holds becomes
\* visible at once. chat returns the ChatResponse; generate_stream yields
\* 'end' and is exhausted. get_db then commits a session with nothing
\* pending and closes it.
Commit(t) ==
  /\ pc[t] = "assistant_saved"
  /\ sessions' = sessions \cup tx[t].sessions
  /\ messages' = messages \o tx[t].messages
  /\ tool_usage' = tool_usage \cup tx[t].tool_usage
  /\ tx' = [tx EXCEPT ![t] = EmptyTx]
  /\ events' = [events EXCEPT ![t] =
                  IF mode[t] = "stream" THEN Append(@, Event("end", <<>>)) ELSE @]
  /\ outcome' = [outcome EXCEPT ![t] = IF mode[t] = "chat" THEN "response" ELSE "streamed"]
  /\ reply' = [reply EXCEPT ![t] =
                 IF mode[t] = "chat"
                   THEN [message |-> full_response[t],
                         session_id |-> SessionIdOf(t),
                         tools_used |-> tools_used[t]]
                   ELSE @]
  /\ pc' = [pc EXCEPT ![t] = "done"]
  /\ Step(t, "commit", TRUE)
  /\ UNCHANGED <<clock, toolVars, searchVars, mode, req_session_id, context, agent_calls,
                 full_response, tools_used, user_saved>>

\* Variant: the failure of `await db.commit()` is swallowed and the turn
\* goes on as if it had committed.
CommitFail_Swallowed(t) ==
  /\ pc[t] = "assistant_saved"
  /\ Step(t, "commit", FALSE)
  /\ tx' = [tx EXCEPT ![t] = EmptyTx]
  /\ events' = [events EXCEPT ![t] =
                  IF mode[t] = "stream" THEN Append(@, Event("end", <<>>)) ELSE @]
  /\ outcome' = [outcome EXCEPT ![t] = IF mode[t] = "chat" THEN "response" ELSE "streamed"]
  /\ pc' = [pc EXCEPT ![t] = "done"]
  /\ UNCHANGED <<clock, toolVars, searchVars, storeVars, mode, req_session_id, reply, context,
                 agent_calls, full_response, tools_used, user_saved>>

\* `await db.commit()` raises: nothing becomes visible.
CommitFail(t) ==
  /\ pc[t] = "assistant_saved"
  /\ ToExcept(t)
  /\ Step(t, "commit", FALSE)
  /\ UNCHANGED <<clock, toolVars, searchVars, storeVars, mode, req_session_id, reply, context,
                 agent_calls, full_response, tools_used, events, user_saved>>

\* The except clause: `await db.rollback()` succeeds; chat raises
\* HTTPException(500), generate_stream yields 'error' and is exhausted.
Rollback(t) ==
  /\ pc[t] = "except"
  /\ Step(t, "rollback", TRUE)
  /\ tx' = [tx EXCEPT ![t] = EmptyTx]
  /\ events' = [events EXCEPT ![t] =
                  IF mode[t] = "stream" THEN Append(@, Event("error", <<>>)) ELSE @]
  /\ outcome' = [outcome EXCEPT ![t] = IF mode[t] = "chat" THEN "http500" ELSE "streamed"]
  /\ pc' = [pc EXCEPT ![t] = "done"]
  /\ UNCHANGED <<clock, toolVars, searchVars, storeVars, mode, req_session_id, reply, context,
                 agent_calls, full_response, tools_used, user_saved>>

\* The except clause: `await db.rollback()` itself raises. The exception
\* leaves the handler (chat: no HTTPException is raised, the server answers
\* the unhandled exception with its own 500 page) or the generator (stream,
\* which ends without another event); get_db rolls back and closes the
\* session, so nothing the turn wrote is committed.
RollbackFail(t) ==
  /\ pc[t] = "except"
  /\ Step(t, "rollback", FALSE)
  /\ tx' = [tx EXCEPT ![t] = EmptyTx]
  /\ outcome' = [outcome EXCEPT ![t] = IF mode[t] = "chat" THEN "unhandled500" ELSE "aborted"]
  /\ pc' = [pc EXCEPT ![t] = "done"]
  /\ UNCHANGED <<clock, toolVars, searchVars, storeVars, mode, req_session_id, reply, context,
                 agent_calls, full_response, tools_used, events, user_saved>>

\* The caller of a streaming turn goes away while generate_stream is
\* suspended at a yield or waiting in an await. What reaches the generator
\* is a CancelledError or a GeneratorExit, which `except Exception` does
\* not catch: the generator ends there, with no rollback, no save and no
\* further event. What becomes of the writes the AsyncSession holds is
\* decided by the teardown of get_db, which depends on how the framework
\* ends the request: either get_db resumes after its yield and commits
\* them, or the session is closed (or dropped) and they are discarded.
ClientDisconnect(t) ==
  /\ mode[t] = "stream"
  /\ pc[t] \in {"session", "context", "user_saved", "yielded", "agent_done",
                "assistant_saved"}
  /\ \/ /\ sessions' = sessions \cup tx[t].sessions      \* session.commit()
        /\ messages' = messages \o tx[t].messages
        /\ tool_usage' = tool_usage \cup tx[t].tool_usage
     \/ UNCHANGED <<sessions, messages, tool_usage>>      \* session.close()
  /\ tx' = [tx EXCEPT ![t] = EmptyTx]
  /\ outcome' = [outcome EXCEPT ![t] = "disconnected"]
  /\ pc' = [pc EXCEPT ![t] = "gone"]
  /\ UNCHANGED <<clock, toolVars, searchVars, mode, req_session_id, reply, context, agent_calls,
                 full_response, tools_used, events, user_saved, steps>>

Next ==
  \E t \in Turns :
    \/ GetOrCreateSession(t)
    \/ GetContext(t)
    \/ SaveUserMessage(t)
    \/ AgentDelta(t)
    \/ ResumeAfterText(t)
    \/ AgentFinish(t)
    \/ AgentRaise(t)
    \/ SaveAssistantMessage(t)
    \/ Commit(t)
    \/ CommitFail(t)
    \/ Rollback(t)
    \/ RollbackFail(t)
    \/ ClientDisconnect(t)

Spec == Init /\ [][Next]_vars

\* ------------------------------------------ chat turns: a session with history

MaxPriorTurns == 6

\* The store after k earlier turns on session "s1", run one after the
\* other and all successful: each committed its user and its assistant
\* message in one transaction of its own.
PriorMessages(k) ==
  [i \in 1..(2 * k) |->
     LET h == (i + 1) \div 2
         role == IF i % 2 = 1 THEN "user" ELSE "assistant"
     IN  [id |-> <<-h, role>>,
          conversation_id |-> 0,
          role |-> role,
          content |-> <<role \o "-" \o ToString(h)>>,
          tools_used |-> <<>>,
          created_at |-> h]]

\* One request (turn 1) arrives at a store that holds the messages of up to
\* MaxPriorTurns earlier turns; turn 2 makes no request.
InitHistory ==
  /\ SearchParked
  /\ ToolsParked
  /\ \E k \in 0..MaxPriorTurns :
       /\ sessions = IF k = 0
                       THEN {}
                       ELSE {[id |-> 0, session_id |-> "s1",
                              created_at |-> 1, last_activity |-> 1]}
       /\ messages = PriorMessages(k)
       /\ clock = k
  /\ tool_usage = {}
  /\ tx = [t \in Turns |-> EmptyTx]
  /\ pc = [t \in Turns |-> IF t = 1 THEN "new" ELSE "off"]
  /\ \E m \in {"chat", "stream"} : mode = [t \in Turns |-> m]
  /\ \E sid \in RequestSessionIds :
       req_session_id = [t \in Turns |-> IF t = 1 THEN sid ELSE ""]
  /\ context = [t \in Turns |-> <<>>]
  /\ agent_calls = [t \in Turns |-> <<>>]
  /\ full_response = [t \in Turns |-> <<>>]
  /\ tools_used = [t \in Turns |-> <<>>]
  /\ events = [t \in Turns |-> <<>>]
  /\ outcome = [t \in Turns |-> "pending"]
  /\ user_saved = [t \in Turns |-> FALSE]
  /\ steps = [t \in Turns |-> <<>>]
  /\ reply = [t \in Turns |-> <<>>]

SpecHistory == InitHistory /\ [][Next]_vars

\* ------------------------------------------------ the tool functions: calls

\* The hybrid search and the chat handlers are not running in the tool
\* specification. The graph client is a module-level object: earlier calls
\* may have initialised it, or left a handle behind without finishing.
InitTools ==
  /\ SearchParked
  /\ TurnsParked
  /\ ClientTasksParked
  /\ tool \in ToolFunctions
  /\ targ \in ToolInputs(tool)
  /\ tpc = "start"
  /\ tfault = {}
  /\ embedding = <<>>
  /\ engine_out = <<>>
  /\ engine_queries = 0
  /\ tout = <<>>
  /\ initialized \in BOOLEAN
  /\ graphiti \in {"None", "handle"}
  /\ initialized => graphiti = "handle"

\* generate_embedding returns: the provider's vector, or the zero vector
\* for a blank text (no provider call is made).
GenerateEmbedding ==
  /\ tool = "vector_search_tool"
  /\ tpc = "start"
  /\ embedding' = IF Split(targ.query) = <<>> THEN ZeroVector ELSE ProviderVector
  /\ tpc' = "embedded"
  /\ UNCHANGED <<engine_queries, tool, targ, tfault, engine_out, tout, initialized, graphiti,
                 clientVars, searchVars, storeVars, turnVars>>

\* GenerateEmbeddingFail without the try/except of generate_embedding.
GenerateEmbeddingFail_Raises ==
  /\ tool = "vector_search_tool"
  /\ tpc = "start"
  /\ Split(targ.query) # <<>>
  /\ tfault' = tfault \cup {"embedding"}
  /\ tpc' = "raised"
  /\ UNCHANGED <<engine_queries, tool, targ, embedding, engine_out, tout,
                 initialized, graphiti, clientVars, searchVars, storeVars, turnVars>>

\* The embedding provider raises: generate_embedding catches it and
\* returns the zero vector.
GenerateEmbeddingFail ==
  /\ tool = "vector_search_tool"
  /\ tpc = "start"
  /\ Split(targ.query) # <<>>
  /\ embedding' = ZeroVector
  /\ tfault' = tfault \cup {"embedding"}
  /\ tpc' = "embedded"
  /\ UNCHANGED <<engine_queries, tool, targ, engine_out, tout, initialized, graphiti,
                 clientVars, searchVars, storeVars, turnVars>>

\* The SQL query runs with whatever vector the embedding step handed over
\* and its rows are returned as ChunkResults.
VectorQuery ==
  /\ tool = "vector_search_tool"
  /\ tpc = "embedded"
  /\ \E rows \in ChunkLists :
       /\ engine_out' = rows
       /\ tout' = rows
  /\ tpc' = "done"
  /\ engine_queries' = engine_queries + 1
  /\ UNCHANGED <<tool, targ, tfault, embedding, initialized, graphiti,
                 clientVars, searchVars, storeVars, turnVars>>

\* VectorQueryFail without the try/except of vector_search_tool.
VectorQueryFail_Raises ==
  /\ tool = "vector_search_tool"
  /\ tpc = "embedded"
  /\ tfault' = tfault \cup {"query"}
  /\ tpc' = "raised"
  /\ engine_queries' = engine_queries + 1
  /\ UNCHANGED <<tool, targ, embedding, engine_out, tout, initialized,
                 graphiti, clientVars, searchVars, storeVars, turnVars>>

\* Opening the session or executing the query raises: the except clause
\* of vector_search_tool returns [].
VectorQueryFail ==
  /\ tool = "vector_search_tool"
  /\ tpc = "embedded"
  /\ tfault' = tfault \cup {"query"}
  /\ tout' = <<>>
  /\ tpc' = "done"
  /\ engine_queries' = engine_queries + 1
  /\ UNCHANGED <<tool, targ, embedding, engine_out, initialized, graphiti,
                 clientVars, searchVars, storeVars, turnVars>>

\* await graph_client.initialize() returns: at once when _initialized,
\* else after building the Graphiti handle and its indices.
Initialize ==
  /\ tool \in GraphTools
  /\ tpc = "start"
  /\ initialized' = TRUE
  /\ graphiti' = "handle"
  /\ tpc' = "initialized"
  /\ UNCHANGED <<engine_queries, tool, targ, tfault, embedding, engine_out, tout,
                 clientVars, searchVars, storeVars, turnVars>>

\* initialize raises and re-raises: building the handle failed (graphiti
\* keeps its value) or build_indices_and_constraints failed (the handle is
\* assigned, _initialized stays False). The tool's except clause returns
\* its failure value.
InitializeFail ==
  /\ tool \in GraphTools
  /\ tpc = "start"
  /\ ~initialized
  /\ \/ UNCHANGED graphiti
     \/ graphiti' = "handle"
  /\ tfault' = tfault \cup {"initialize"}
  /\ tout' = IF tool = "get_entity_relationships_tool"
               THEN RelationshipsToolError(targ.entity_name, targ.depth)
               ELSE <<>>
  /\ tpc' = "done"
  /\ UNCHANGED <<engine_queries, tool, targ, embedding, engine_out, initialized,
                 clientVars, searchVars, storeVars, turnVars>>

\* graph_search_tool: graph_client.search returns the engine's results.
GraphSearch ==
  /\ tool = "graph_search_tool"
  /\ tpc = "initialized"
  /\ \E results \in EngineResults :
       /\ engine_out' = results
       /\ tout' = ClientSearch(results)
  /\ tpc' = "done"
  /\ engine_queries' = engine_queries + 1
  /\ UNCHANGED <<tool, targ, tfault, embedding, initialized, graphiti,
                 clientVars, searchVars, storeVars, turnVars>>

\* graphiti.search raises: GraphitiClient.search returns [], and so does
\* graph_search_tool.
GraphSearchFail ==
  /\ tool = "graph_search_tool"
  /\ tpc = "initialized"
  /\ tfault' = tfault \cup {"search"}
  /\ tout' = <<>>
  /\ tpc' = "done"
  /\ engine_queries' = engine_queries + 1
  /\ UNCHANGED <<tool, targ, embedding, engine_out, initialized, graphiti,
                 clientVars, searchVars, storeVars, turnVars>>

\* get_entity_relationships_tool: get_related_entities returns.
GetRelatedEntities ==
  /\ tool = "get_entity_relationships_tool"
  /\ tpc = "initialized"
  /\ \E results \in EngineResults :
       /\ engine_out' = results
       /\ tout' = RelatedEntities(targ.entity_name, targ.depth, results)
  /\ tpc' = "done"
  /\ engine_queries' = engine_queries + 1
  /\ UNCHANGED <<tool, targ, tfault, embedding, initialized, graphiti,
                 clientVars, searchVars, storeVars, turnVars>>

\* graphiti.search raises inside get_related_entities.
GetRelatedEntitiesFail ==
  /\ tool = "get_entity_relationships_tool"
  /\ tpc = "initialized"
  /\ tfault' = tfault \cup {"search"}
  /\ tout' = RelatedEntitiesError(targ.entity_name)
  /\ tpc' = "done"
  /\ engine_queries' = engine_queries + 1
  /\ UNCHANGED <<tool, targ, embedding, engine_out, initialized, graphiti,
                 clientVars, searchVars, storeVars, turnVars>>

\* get_entity_timeline_tool: a given date is not ISO, fromisoformat raises
\* and the except clause returns [].
TimelineParseFail ==
  /\ tool = "get_entity_timeline_tool"
  /\ tpc = "initialized"
  /\ \/ targ.start_date # "" /\ FromIsoformatRaises(targ.start_date)
     \/ targ.end_date # "" /\ FromIsoformatRaises(targ.end_date)
  /\ tfault' = tfault \cup {"date"}
  /\ tout' = <<>>
  /\ tpc' = "done"
  /\ UNCHANGED <<engine_queries, tool, targ, embedding, engine_out, initialized, graphiti,
                 clientVars, searchVars, storeVars, turnVars>>

\* The dates parsed (or are absent).
TimelineDatesParse ==
  /\ tool = "get_entity_timeline_tool"
  /\ tpc = "initialized"
  /\ targ.start_date # "" => ~FromIsoformatRaises(targ.start_date)
  /\ targ.end_date # "" => ~FromIsoformatRaises(targ.end_date)

\* get_entity_timeline returns the sorted timeline.
GetEntityTimeline ==
  /\ TimelineDatesParse
  /\ \E results \in EngineResults :
       /\ engine_out' = results
       /\ tout' = EntityTimeline(results)
  /\ tpc' = "done"
  /\ engine_queries' = engine_queries + 1
  /\ UNCHANGED <<tool, targ, tfault, embedding, initialized, graphiti,
                 clientVars, searchVars, storeVars, turnVars>>

\* graphiti.search raises inside get_entity_timeline.
GetEntityTimelineFail ==
  /\ TimelineDatesParse
  /\ tfault' = tfault \cup {"search"}
  /\ tout' = <<>>
  /\ tpc' = "done"
  /\ engine_queries' = engine_queries + 1
  /\ UNCHANGED <<tool, targ, embedding, engine_out, initialized, graphiti,
                 clientVars, searchVars, storeVars, turnVars>>

NextTools ==
  \/ GenerateEmbedding
  \/ GenerateEmbeddingFail
  \/ VectorQuery
  \/ VectorQueryFail
  \/ Initialize
  \/ InitializeFail
  \/ GraphSearch
  \/ GraphSearchFail
  \/ GetRelatedEntities
  \/ GetRelatedEntitiesFail
  \/ TimelineParseFail
  \/ GetEntityTimeline
  \/ GetEntityTimelineFail

SpecTools == InitTools /\ [][NextTools]_vars

\* ------------------------- the shared GraphitiClient: initialize and close

\* The tasks that use the module's one graph_client at the same time; each
\* makes up to MaxClientCalls calls of initialize() or close(), and another
\* task can run whenever one is suspended in an await.
ClientTasks == {1, 2}

MaxClientCalls == 2

\* The state after GraphitiClient.__init__; no tool function is followed.
InitClient ==
  /\ SearchParked
  /\ TurnsParked
  /\ tool = "off"
  /\ tpc = "off"
  /\ targ = <<>>
  /\ tfault = {}
  /\ embedding = <<>>
  /\ engine_out = <<>>
  /\ engine_queries = 0
  /\ tout = <<>>
  /\ initialized = FALSE
  /\ graphiti = "None"
  /\ cpc = [k \in ClientTasks |-> "idle"]
  /\ ccalls = [k \in ClientTasks |-> 0]
  /\ handles = 0

\* Task k is between calls and has one left to make.
CanCall(k) == cpc[k] = "idle" /\ ccalls[k] < MaxClientCalls

\* initialize(): `if self._initialized: return`.
ClientInitializeReturn(k) ==
  /\ CanCall(k)
  /\ initialized
  /\ ccalls' = [ccalls EXCEPT ![k] = @ + 1]
  /\ UNCHANGED <<cpc, handles, initialized, graphiti, tool, tpc, targ, tfault,
                 embedding, engine_out, engine_queries, tout,
                 searchVars, storeVars, turnVars>>

\* initialize(), not initialised: the configurations and the Graphiti
\* object are built and assigned to self.graphiti; the task is suspended in
\* `await self.graphiti.build_indices_and_constraints()`.
ClientInitializeConstruct(k) ==
  /\ CanCall(k)
  /\ ~initialized
  /\ graphiti' = "handle"
  /\ handles' = handles + 1
  /\ cpc' = [cpc EXCEPT ![k] = "building"]
  /\ ccalls' = [ccalls EXCEPT ![k] = @ + 1]
  /\ UNCHANGED <<initialized, tool, tpc, targ, tfault, embedding, engine_out,
                 engine_queries, tout, searchVars, storeVars, turnVars>>

\* initialize(), not initialised: a configuration or the Graphiti
\* constructor raises before self.graphiti is assigned; the exception is
\* logged and raised again.
ClientInitializeConstructFail(k) ==
  /\ CanCall(k)
  /\ ~initialized
  /\ ccalls' = [ccalls EXCEPT ![k] = @ + 1]
  /\ UNCHANGED <<cpc, handles, initialized, graphiti, tool, tpc, targ, tfault,
                 embedding, engine_out, engine_queries, tout,
                 searchVars, storeVars, turnVars>>

\* build_indices_and_constraints() returns: `self._initialized = True`.
ClientInitializeBuilt(k) ==
  /\ cpc[k] = "building"
  /\ initialized' = TRUE
  /\ cpc' = [cpc EXCEPT ![k] = "idle"]
  /\ UNCHANGED <<ccalls, handles, graphiti, tool, tpc, targ, tfault, embedding,
                 engine_out, engine_queries, tout, searchVars, storeVars, turnVars>>

\* build_indices_and_constraints() raises: logged and raised again;
\* self.graphiti keeps the object.
ClientInitializeBuildFail(k) ==
  /\ cpc[k] = "building"
  /\ cpc' = [cpc EXCEPT ![k] = "idle"]
  /\ UNCHANGED <<ccalls, handles, initialized, graphiti, tool, tpc, targ, tfault,
                 embedding, engine_out, engine_queries, tout,
                 searchVars, storeVars, turnVars>>

\* close() with self.graphiti None: nothing to do.
ClientCloseReturn(k) ==
  /\ CanCall(k)
  /\ graphiti = "None"
  /\ ccalls' = [ccalls EXCEPT ![k] = @ + 1]
  /\ UNCHANGED <<cpc, handles, initialized, graphiti, tool, tpc, targ, tfault,
                 embedding, engine_out, engine_queries, tout,
                 searchVars, storeVars, turnVars>>

\* close() with a handle: the task is suspended in
\* `await self.graphiti.close()`.
ClientCloseStart(k) ==
  /\ CanCall(k)
  /\ graphiti # "None"
  /\ cpc' = [cpc EXCEPT ![k] = "closing"]
  /\ ccalls' = [ccalls EXCEPT ![k] = @ + 1]
  /\ UNCHANGED <<handles, initialized, graphiti, tool, tpc, targ, tfault,
                 embedding, engine_out, engine_queries, tout,
                 searchVars, storeVars, turnVars>>

\* graphiti.close() returns: `self.graphiti = None`,
\* `self._initialized = False`.
ClientCloseFinish(k) ==
  /\ cpc[k] = "closing"
  /\ graphiti' = "None"
  /\ initialized' = FALSE
  /\ handles' = 0
  /\ cpc' = [cpc EXCEPT ![k] = "idle"]
  /\ UNCHANGED <<ccalls, tool, tpc, targ, tfault, embedding, engine_out,
                 engine_queries, tout, searchVars, storeVars, turnVars>>

\* graphiti.close() raises: the exception leaves close(), both fields
\* stay as they are.
ClientCloseFail(k) ==
  /\ cpc[k] = "closing"
  /\ cpc' = [cpc EXCEPT ![k] = "idle"]
  /\ UNCHANGED <<ccalls, handles, initialized, graphiti, tool, tpc, targ, tfault,
                 embedding, engine_out, engine_queries, tout,
                 searchVars, storeVars, turnVars>>

NextClient ==
  \E k \in ClientTasks :
    \/ ClientInitializeReturn(k)
    \/ ClientInitializeConstruct(k)
    \/ ClientInitializeConstructFail(k)
    \/ ClientInitializeBuilt(k)
    \/ ClientInitializeBuildFail(k)
    \/ ClientCloseReturn(k)
    \/ ClientCloseStart(k)
    \/ ClientCloseFinish(k)
    \/ ClientCloseFail(k)

SpecClient == InitClient /\ [][NextClient]_vars

\* ----------------------------------------------- properties of the chat turns

\* Rows the message SELECT of get_session_info matches for session sid.
CommittedMessagesOf(sid) ==
  {messages[i] : i \in {k \in 1..Len(messages) :
      \E r \in sessions : r.session_id = sid /\ r.id = messages[k].conversation_id}}

\* The committed messages written by turn t, in insertion order.
MessagesOfTurn(t) == SelectSeq(messages, LAMBDA m : m.id[1] = t)

TerminalTypes == {"end", "error"}

\* chat returned a ChatResponse, or generate_stream yielded 'end'.
TurnSucceeded(t) ==
  \/ outcome[t] = "response"
  \/ /\ mode[t] = "stream"
     /\ \E i \in 1..Len(events[t]) : events[t][i].type = "end"

\* The handler is over and the turn did not succeed.
TurnFailed(t) == pc[t] = "done" /\ ~TurnSucceeded(t)

\* C1: a turn that fails after save_message returned for the user message
\* still leaves that user Message readable in its session.
C1_UserMessageSurvivesFailure ==
  \A t \in Turns :
    (TurnFailed(t) /\ user_saved[t]) =>
      \E m \in CommittedMessagesOf(SessionIdOf(t)) : m.id = <<t, "user">>

\* C2: a stream consumed to exhaustion holds exactly one terminal event
\* ('end' or 'error') and it is the last event.
C2_OneTerminalEventLast ==
  \A t \in Turns :
    (mode[t] = "stream" /\ pc[t] = "done" /\ events[t] # <<>>) =>
      LET n == Len(events[t])
      IN  /\ events[t][n].type \in TerminalTypes
          /\ \A i \in 1..(n - 1) : events[t][i].type \notin TerminalTypes

\* C3: a turn that completes successfully has added exactly one 'user' and
\* exactly one 'assistant' Message, both to the turn's session, and no
\* other Message.
C3_SuccessAddsOnePair ==
  \A t \in Turns :
    TurnSucceeded(t) =>
      LET mine == MessagesOfTurn(t)
      IN  /\ Len(mine) = 2
          /\ Cardinality({i \in 1..Len(mine) : mine[i].role = "user"}) = 1
          /\ Cardinality({i \in 1..Len(mine) : mine[i].role = "assistant"}) = 1
          /\ \A i \in 1..Len(mine) : mine[i] \in CommittedMessagesOf(SessionIdOf(t))
          /\ tx[t].messages = <<>>

C3_Witness ==
  /\ \A t \in Turns : TurnSucceeded(t) /\ req_session_id[t] = "s1"
  /\ \E t \in Turns : mode[t] = "stream" /\ Len(full_response[t]) = MaxDeltas
  /\ \E t \in Turns : mode[t] = "chat"
  /\ Len(messages) = 4

\* C4: what is committed never shows part of a turn: an assistant Message
\* is visible only with all of its ToolUsage rows and with the user
\* Message of the same turn.
C4_NoPartialTurnVisible ==
  \A i \in 1..Len(messages) :
    messages[i].role = "assistant" =>
      /\ Cardinality({u \in tool_usage : u.message_id = messages[i].id})
           = Len(messages[i].tools_used)
      /\ \E j \in 1..Len(messages) :
           /\ messages[j].role = "user"
           /\ messages[j].id[1] = messages[i].id[1]
           /\ messages[j].conversation_id = messages[i].conversation_id

C4_Witness ==
  \E t, u \in Turns :
    /\ t # u
    /\ TurnSucceeded(t)
    /\ \E i \in 1..Len(messages) :
         /\ messages[i].id = <<t, "assistant">>
         /\ Len(messages[i].tools_used) >= 1
    /\ pc[u] = "assistant_saved"
    /\ tx[u].tool_usage # {}

\* ------------------------------------------- properties of the hybrid search

\* f, lowercased, contains one of the tokens toks as a substring.
HasToken(toks, f) == \E n \in 1..Len(toks) : Contains(toks[n], Lower(f))

\* The lowercased whitespace-separated tokens of the query.
QueryTokens == Split(Lower(query))

\* Indices of the graph results whose lowercased fact contains some
\* lowercased whitespace-separated token of the query.
MatchingIdx ==
  LET toks == QueryTokens
  IN  {i \in 1..Len(graph_results) : HasToken(toks, graph_results[i].fact)}

\* The j-th index of M, in increasing (engine) order.
NthMatch(M, j) == CHOOSE i \in M : Cardinality({k \in M : k <= i}) = j

Min(a, b) == IF a < b THEN a ELSE b

HasContext(chunk) == "graph_context" \in DOMAIN chunk.metadata

\* C5: the list hybrid_search_tool returns has the length and the chunk_id
\* order of the list vector_search_tool returned for the query: fusion
\* drops, adds and reorders nothing.
C5_SameLengthAndOrder ==
  hpc = "done" =>
    /\ Len(hybrid_out) = Len(vector_base)
    /\ \A i \in 1..Len(vector_base) : hybrid_out[i].chunk_id = vector_base[i].chunk_id

C5_Witness ==
  /\ hpc = "done"
  /\ Len(vector_base) = 2
  /\ Len(graph_results) >= 2
  /\ \E i \in 1..Len(hybrid_out) : HasContext(hybrid_out[i])

\* C6: graph_context, when present on a returned chunk, holds at most 3
\* facts and each of them, lowercased, contains a lowercased query token.
C6_ContextBoundedAndMatching ==
  hpc = "done" =>
    \A i \in 1..Len(hybrid_out) :
      HasContext(hybrid_out[i]) =>
        LET ctx == hybrid_out[i].metadata["graph_context"]
            toks == QueryTokens
        IN  /\ Len(ctx) <= 3
            /\ \A j \in 1..Len(ctx) : HasToken(toks, ctx[j])

C6_Witness ==
  /\ hpc = "done"
  /\ Cardinality(MatchingIdx) >= 4
  /\ \E i \in 1..Len(hybrid_out) :
       /\ HasContext(hybrid_out[i])
       /\ Len(hybrid_out[i].metadata["graph_context"]) = 3

\* C7: when m >= 1 facts match the query, graph_context on every returned
\* chunk is the first min(3, m) matching facts in the graph engine's order.
C7_FirstMatchingFacts ==
  hpc = "done" =>
    LET M == MatchingIdx
        expected == [j \in 1..Min(3, Cardinality(M)) |->
                       graph_results[NthMatch(M, j)].fact]
    IN  Cardinality(M) >= 1 =>
          \A i \in 1..Len(hybrid_out) :
            /\ HasContext(hybrid_out[i])
            /\ hybrid_out[i].metadata["graph_context"] = expected

C7_Witness ==
  /\ hpc = "done"
  /\ Len(hybrid_out) >= 1
  /\ Cardinality(MatchingIdx) = 2
  /\ 1 \notin MatchingIdx
  /\ \E i, j \in MatchingIdx : graph_results[i].fact # graph_results[j].fact
  /\ \E n \in 1..Len(query) : query[n] = "A"

\* C8: when no fact matches a query token, every returned chunk is the
\* chunk vector_search_tool returned: no graph_context key, nothing changed.
C8_UnmatchedUnmodified ==
  (hpc = "done" /\ MatchingIdx = {}) => hybrid_out = vector_base

C8_Witness ==
  /\ hpc = "done"
  /\ MatchingIdx = {}
  /\ Len(graph_results) >= 1
  /\ Len(Split(query)) >= 1
  /\ Len(hybrid_out) = 2

\* C9: hybrid_search_tool never raises; graph failure with vector success
\* returns the vector chunks unannotated, vector failure returns [].
C9_DegradesNeverRaises ==
  /\ hpc # "raised"
  /\ hpc = "done" =>
       /\ (graphCall = "failed" /\ vectorCall = "returned") => hybrid_out = vector_base
       /\ vectorCall = "failed" => hybrid_out = <<>>

C9_Witness ==
  /\ hpc = "done"
  /\ graphCall = "failed"
  /\ vectorCall = "returned"
  /\ Len(hybrid_out) = 2

\* C10: the vector call and the graph call are issued concurrently (the
\* graph call is already issued while the vector call is in flight), and
\* fusion starts only after both calls completed or failed.
C10_IssuedConcurrently ==
  /\ vectorCall = "inflight" => graphCall # "idle"
  /\ hpc \in {"fuse", "done"} =>
       /\ vectorCall \in {"returned", "failed"}
       /\ graphCall \in {"returned", "failed"}


\* C11: when the vector engine returns no chunk and the graph engine
\* returns at least one fact, the facts are present in what the hybrid
\* search hands to the agent.
C11_FactsReturnedWithoutChunks ==
  (hpc = "done" /\ vectorCall = "returned" /\ graphCall = "returned"
     /\ vector_base = <<>> /\ graph_results # <<>>) =>
    \A j \in 1..Len(graph_results) :
      \E i \in 1..Len(HybridSearch(hybrid_out)) :
        \E k \in 1..Len(HybridSearch(hybrid_out)[i].graph_context) :
          HybridSearch(hybrid_out)[i].graph_context[k] = graph_results[j].fact

\* ------------------------------------------- properties of the tool functions

SearchTools == {"vector_search_tool", "graph_search_tool"}

\* C12 (as amended): vector_search_tool and graph_search_tool never raise.
\* When the database query, the graph client's initialisation or the graph
\* engine's search fails, the tool returns the empty list. When only the
\* embedding provider fails, vector_search_tool goes on with the zero
\* vector and returns the rows the database query gives for it.
C12_SearchToolsNeverRaise ==
  tool \in SearchTools =>
    /\ tpc # "raised"
    /\ (tpc = "done" /\ tfault \cap {"query", "initialize", "search"} # {})
         => tout = <<>>
    /\ (tpc = "done" /\ tfault = {"embedding"})
         => embedding = ZeroVector /\ tout = engine_out

\* The embedding provider failed and vector_search_tool returned chunks.
C12_Witness ==
  /\ tool = "vector_search_tool"
  /\ tpc = "done"
  /\ tfault = {"embedding"}
  /\ tout # <<>>

\* C12 (as stated): on any failure, the embedding call's included, each of
\* the two tools returns the empty list.
C12_EmptyOnAnyFailure ==
  (tool \in SearchTools /\ tpc = "done" /\ tfault # {}) => tout = <<>>

\* The year a valid_at string of the timeline stands for.
YearOf(s) ==
  (Ord(s[1]) - 48) * 1000 + (Ord(s[2]) - 48) * 100
    + (Ord(s[3]) - 48) * 10 + (Ord(s[4]) - 48)

\* C13: the timeline is ordered by valid_at, newest first, and every entry
\* without valid_at comes after every entry that has one, whatever the
\* timestamps are.
C13_NewestFirstMissingLast ==
  (tool = "get_entity_timeline_tool" /\ tpc = "done" /\ tfault = {}) =>
    \A i, j \in 1..Len(tout) :
      i < j =>
        /\ tout[i].valid_at = None => tout[j].valid_at = None
        /\ (tout[i].valid_at # None /\ tout[j].valid_at # None)
             => YearOf(tout[i].valid_at) >= YearOf(tout[j].valid_at)

\* C14: the relationships operation returns an object with central_entity,
\* related_facts and depth, on success and on failure alike.
C14_SameShapeAlways ==
  (tool = "get_entity_relationships_tool" /\ tpc = "done") =>
    {"central_entity", "related_facts", "depth"} \subseteq DOMAIN tout

\* C15: on success the relationships operation returns one related fact
\* per engine result, in the engine's order, with the result's fact text
\* and uuid, the requested entity as central_entity and the requested
\* depth as depth.
C15_SuccessCarriesEngineResults ==
  (tool = "get_entity_relationships_tool" /\ tpc = "done" /\ tfault = {}) =>
    /\ tout.central_entity = targ.entity_name
    /\ tout.depth = targ.depth
    /\ Len(tout.related_facts) = Len(engine_out)
    /\ \A i \in 1..Len(engine_out) :
         /\ tout.related_facts[i].fact = engine_out[i].fact
         /\ tout.related_facts[i].uuid = StrUuid(engine_out[i].uuid)

\* A successful call with depth 2 over at least two engine results.
C15_Witness ==
  /\ tool = "get_entity_relationships_tool"
  /\ tpc = "done"
  /\ tfault = {}
  /\ targ.depth > 1
  /\ Len(engine_out) > 1
  /\ Len(tout.related_facts) = Len(engine_out)


\* A date of the timeline request is given and is not an ISO date.
BadDateGiven ==
  \/ targ.start_date # "" /\ FromIsoformatRaises(targ.start_date)
  \/ targ.end_date # "" /\ FromIsoformatRaises(targ.end_date)

\* C27: a timeline request with a start_date or end_date that is not an
\* ISO date is answered with an error the caller can tell from a
\* successful empty timeline, and no query is issued to the graph engine.
C27_BadDateReportedNoQuery ==
  (tool = "get_entity_timeline_tool" /\ tpc = "done" /\ BadDateGiven) =>
    /\ tout # EntityTimeline(<<>>)
    /\ engine_queries = 0

\* C28: generate_embedding never raises; for a blank text and when the
\* provider fails it returns settings.embedding_dimensions zeros.
C28_ZeroVectorFallback ==
  tool = "vector_search_tool" =>
    /\ tpc # "raised"
    /\ (tpc # "start" /\ (Split(targ.query) = <<>> \/ "embedding" \in tfault)) =>
         /\ Len(embedding) = embedding_dimensions
         /\ \A i \in 1..Len(embedding) : embedding[i] = 0

\* The provider failed for a query with text and the fallback was returned.
C28_Witness ==
  /\ tool = "vector_search_tool"
  /\ tpc = "embedded"
  /\ Split(targ.query) # <<>>
  /\ "embedding" \in tfault
  /\ Len(embedding) = embedding_dimensions

\* ------------------------------------ properties of the chat turns, continued

\* C16: the tool ledger of a turn has exactly one entry per tool call the
\* agent made, in call order, named after the tool called.
C16_OneLedgerEntryPerCall ==
  \A t \in Turns :
    /\ Len(tools_used[t]) = Len(agent_calls[t])
    /\ \A i \in 1..Len(tools_used[t]) :
         i <= Len(agent_calls[t]) => tools_used[t][i].tool_name = agent_calls[t][i]

\* The ToolUsage rows turn t's transaction holds for its message of role.
PendingToolUsageOf(t, role) ==
  {u \in tx[t].tool_usage : u.message_id = <<t, role>>}

\* C17: once save_message returned, the new Message owns as many ToolUsage
\* rows as tools_used has entries (none for the user message, saved without
\* tools_used), the i-th row carries the tool_name and args of the i-th
\* entry, and no row of the call belongs to another Message.
C17_ToolRowsMatchLedger ==
  \A t \in Turns :
    /\ pc[t] \in {"user_saved", "agent_done"} => tx[t].tool_usage = {}
    /\ pc[t] = "assistant_saved" =>
         /\ Cardinality(PendingToolUsageOf(t, "assistant")) = Len(tools_used[t])
         /\ \A i \in 1..Len(tools_used[t]) :
              \E u \in PendingToolUsageOf(t, "assistant") :
                /\ u.seq = i
                /\ u.tool_name = tools_used[t][i].tool_name
                /\ u.tool_args = tools_used[t][i].args
         /\ tx[t].tool_usage = PendingToolUsageOf(t, "assistant")

\* The assistant message was saved with a ledger of two entries.
C17_Witness ==
  \E t \in Turns :
    /\ pc[t] = "assistant_saved"
    /\ Len(tools_used[t]) = 2
    /\ Cardinality(PendingToolUsageOf(t, "assistant")) = 2

\* C18: a call of get_or_create_session made while no other request has a
\* transaction open leaves exactly one Session with the session id; when
\* the Session existed before the call, the call adds and changes nothing;
\* without a session_id in the request the Session is created under a
\* fresh identifier.
C18_GetOrCreateIdempotent ==
  [][\A t \in Turns :
       (/\ pc[t] = "new"
        /\ pc'[t] = "session"
        /\ \A u \in Turns \ {t} : pc[u] \in {"new", "done", "gone", "off"}) =>
         LET before == VisibleSessions(t, SessionIdOf(t))
             after == {r \in sessions' \cup tx'[t].sessions :
                         r.session_id = SessionIdOf(t)}
         IN  /\ Cardinality(after) = 1
             /\ before # {} => after = before /\ tx'[t].sessions = {}
             /\ req_session_id[t] = "" =>
                  \A r \in after : r.id = t /\ r.session_id = FreshUuid(t)]_vars

\* A second request with the session id of a finished, successful one has
\* called get_or_create_session: the only Session is the first request's.
C18_Witness ==
  \E t, u \in Turns :
    /\ t # u
    /\ req_session_id[t] = "s1"
    /\ req_session_id[u] = "s1"
    /\ TurnSucceeded(u)
    /\ pc[u] = "done"
    /\ pc[t] = "session"
    /\ Cardinality(sessions) = 1
    /\ \A r \in sessions : r.id = u /\ r.session_id = "s1"
    /\ tx[t].sessions = {}

\* The committed messages of session sid, in insertion order.
CommittedSeqOf(sid) ==
  SelectSeq(messages,
            LAMBDA m : \E r \in sessions :
                         r.session_id = sid /\ r.id = m.conversation_id)

\* C19: the prior-conversation part of the prompt is made of the min(6, n)
\* most recent of the n messages the session held before the turn, oldest
\* first; with n = 0 the prompt is the user's message unchanged.
C19_PromptHasLastSixInOrder ==
  \A t \in Turns :
    pc[t] \in {"context", "user_saved", "agent_done", "assistant_saved"} =>
      LET prior == CommittedSeqOf(SessionIdOf(t))
          n == Len(prior)
          recent == SubSeq(prior, n - (IF n < 6 THEN n ELSE 6) + 1, n)
          expected == [i \in 1..Len(recent) |->
                         [role |-> recent[i].role, content |-> recent[i].content]]
      IN  FullPrompt(t) =
            IF n = 0
              THEN RequestMessage(t)
              ELSE <<"Previous conversation:", "\n">> \o ContextStr(expected)
                     \o <<"\n", "\n", "Current question:">> \o RequestMessage(t)

\* C20: within a session, created_at orders the messages strictly and as
\* they were appended: no two messages share a created_at, and a turn's
\* user message comes strictly before its assistant message.
C20_CreatedAtStrictAppendOrder ==
  \A i, j \in 1..Len(messages) :
    (i < j /\ messages[i].conversation_id = messages[j].conversation_id) =>
      messages[i].created_at < messages[j].created_at


\* C26: a successful turn on a session an earlier turn created updates the
\* Session's last_activity: afterwards it is not earlier than the creation
\* time of the turn's messages and it is later than it was when the
\* session was created.
C26_LastActivityUpdated ==
  \A t \in Turns :
    TurnSucceeded(t) =>
      \A r \in sessions :
        (r.session_id = SessionIdOf(t) /\ r.id # t) =>
          /\ r.last_activity > r.created_at
          /\ \A i \in 1..Len(messages) :
               (messages[i].id[1] = t /\ messages[i].conversation_id = r.id)
                 => r.last_activity >= messages[i].created_at


\* The place of the turn that wrote message m among the turns of the
\* history specification: the earlier turns first, then the request.
TurnRank(m) == IF m.id[1] < 0 THEN -m.id[1] ELSE Len(messages) + m.id[1]

\* C21: after k turns run one after the other on one session_id, all
\* successful, get_session_info reports message_count = 2k and lists the
\* messages of an earlier turn before those of a later turn.
C21_SessionInfoCountsAndOrders ==
  (TurnSucceeded(1) /\ req_session_id[1] = "s1") =>
    \A info \in SessionInfos("s1") :
      /\ info.status = 200
      /\ info.message_count = Len(messages)
      /\ info.message_count = 2 * Cardinality({m.id[1] : m \in
                                 {messages[i] : i \in 1..Len(messages)}})
      /\ \A i, j \in 1..Len(info.messages) :
           i < j => TurnRank(info.messages[i]) <= TurnRank(info.messages[j])

\* The request succeeded as the fourth turn, or a later one, of session s1.
C21_Witness ==
  /\ TurnSucceeded(1)
  /\ req_session_id[1] = "s1"
  /\ Len(messages) >= 8
  /\ \E info \in SessionInfos("s1") : info.message_count = Len(messages)

\* C22: a Message appended with save_message and committed comes back from
\* a read of the session's recent messages (the limit, 10, being at least
\* the number of messages appended) with the same role, content and
\* tools_used.
C22_RoundTrip ==
  \A t \in Turns :
    (pc[t] = "session" /\ Len(CommittedSeqOf(SessionIdOf(t))) <= 10
       /\ Cardinality(VisibleSessions(t, SessionIdOf(t))) = 1) =>
      \A ctx \in ConversationContexts(t) :
        \A m \in CommittedMessagesOf(SessionIdOf(t)) :
          \E i \in 1..Len(ctx) :
            /\ ctx[i].role = m.role
            /\ ctx[i].content = m.content
            /\ "tools_used" \in DOMAIN ctx[i]
            /\ ctx[i].tools_used = m.tools_used


\* The concatenation of the contents of a sequence of events.
RECURSIVE Concat(_)
Concat(evs) ==
  IF evs = <<>> THEN <<>> ELSE Head(evs).content \o Concat(Tail(evs))

\* The steps of turn t that have the given name.
StepsNamed(t, name) ==
  {i \in 1..Len(steps[t]) : steps[t][i].step = name}

\* C23: in a streaming turn that ends with 'end' the persisted assistant
\* Message holds the concatenation, in emission order, of the 'text' events
\* sent; and a 'text' event is sent before the next delta is consumed: at
\* most the one event the generator is (or was left) suspended at is not
\* yet part of full_response, which is otherwise the concatenation of the
\* events sent.
C23_PersistedTextIsWhatWasSent ==
  \A t \in Turns :
    mode[t] = "stream" =>
      LET sent == TextEvents(t)
      IN  /\ \/ /\ pc[t] # "yielded"
                /\ full_response[t] = Concat(sent)
             \/ /\ pc[t] \in {"yielded", "gone"}     \* suspended at the yield
                /\ sent # <<>>
                /\ events[t][Len(events[t])] = sent[Len(sent)]
                /\ full_response[t] = Concat(SubSeq(sent, 1, Len(sent) - 1))
          /\ TurnSucceeded(t) =>
               /\ \E i \in 1..Len(messages) : messages[i].id = <<t, "assistant">>
               /\ \A i \in 1..Len(messages) :
                    messages[i].id = <<t, "assistant">> =>
                      messages[i].content = Concat(sent)

\* A streaming turn ended with 'end' after MaxDeltas 'text' events.
C23_Witness ==
  \E t \in Turns :
    /\ mode[t] = "stream"
    /\ TurnSucceeded(t)
    /\ Len(TextEvents(t)) = MaxDeltas
    /\ \E i \in 1..Len(messages) :
         /\ messages[i].id = <<t, "assistant">>
         /\ Len(messages[i].content) = MaxDeltas

\* C24: when the agent fails in a streaming turn after at least one 'text'
\* event was sent, the turn sends 'error' and has attempted to save an
\* assistant Message (holding the text accumulated so far).
C24_PartialTextSavedOnAgentFailure ==
  \A t \in Turns :
    (/\ mode[t] = "stream"
     /\ pc[t] = "done"
     /\ TextEvents(t) # <<>>
     /\ \E i \in StepsNamed(t, "agent") : ~steps[t][i].ok) =>
      /\ \E i \in 1..Len(events[t]) : events[t][i].type = "error"
      /\ StepsNamed(t, "assistant_save") # {}

\* C25: when the caller of a streaming turn went away after the user
\* message was saved, the user Message of the turn is persisted and the
\* turn has attempted to save the assistant text accumulated so far.
C25_DisconnectKeepsUserMessage ==
  \A t \in Turns :
    (pc[t] = "gone" /\ user_saved[t]) =>
      /\ \E m \in CommittedMessagesOf(SessionIdOf(t)) : m.id = <<t, "user">>
      /\ StepsNamed(t, "assistant_save") # {}

\* The steps of a turn, in the order of the handlers.
StepOrder ==
  <<"session", "context", "user_save", "agent", "assistant_save", "commit">>

\* C29: the steps of every turn occur in the order session, context, user
\* save, agent, assistant save, commit, each after the one before returned;
\* the agent has not run, nor streamed anything, before the user Message
\* was saved; the loaded context does not hold the turn's own user Message.
C29_StepsInOrder ==
  \A t \in Turns :
    LET main == SelectSeq(steps[t], LAMBDA s : s.step # "rollback")
    IN  /\ Len(main) <= Len(StepOrder)
        /\ \A i \in 1..Len(main) : main[i].step = StepOrder[i]
        /\ \A i \in 1..(Len(main) - 1) : main[i].ok
        /\ (\/ TextEvents(t) # <<>>
            \/ agent_calls[t] # <<>>
            \/ StepsNamed(t, "agent") # {}) =>
              /\ user_saved[t]
              /\ \E i \in StepsNamed(t, "user_save") : steps[t][i].ok
        /\ \A i \in 1..Len(context[t]) :
             ~(context[t][i].role = "user" /\ context[t][i].content = RequestMessage(t))

\* A chat turn and a streaming turn have both run all six steps, the later
\* one with the earlier one's messages as its context.
C29_Witness ==
  /\ \A t \in Turns : Len(steps[t]) = 6 /\ steps[t][6] = [step |-> "commit", ok |-> TRUE]
  /\ \E t \in Turns : mode[t] = "chat"
  /\ \E t \in Turns : mode[t] = "stream"
  /\ \E t \in Turns : Len(context[t]) = 2

\* C30: in every stream of chat_stream the first event is 'session' with
\* the turn's session_id; the 'text' events come after it; there is at most
\* one 'tools' event, after every 'text' event and only with a tool list
\* that is not empty; 'end' comes only after the assistant Message was
\* saved and the transaction committed.
C30_StreamEventOrder ==
  \A t \in Turns :
    (mode[t] = "stream" /\ events[t] # <<>>) =>
      LET ev == events[t]
          sessions_at == {i \in 1..Len(ev) : ev[i].type = "session"}
          text_at == {i \in 1..Len(ev) : ev[i].type = "text"}
          tools_at == {i \in 1..Len(ev) : ev[i].type = "tools"}
          end_at == {i \in 1..Len(ev) : ev[i].type = "end"}
      IN  /\ ev[1] = Event("session", SessionIdOf(t))
          /\ sessions_at = {1}
          /\ \A i \in text_at : i > 1
          /\ Cardinality(tools_at) <= 1
          /\ \A i \in tools_at :
               /\ \A j \in text_at : j < i
               /\ ev[i].content # <<>>
               /\ ev[i].content = tools_used[t]
          /\ end_at # {} =>
               /\ \E i \in StepsNamed(t, "assistant_save") : steps[t][i].ok
               /\ \E i \in StepsNamed(t, "commit") : steps[t][i].ok
               /\ \E i \in 1..Len(messages) : messages[i].id = <<t, "assistant">>
               /\ tx[t] = EmptyTx

\* A stream with 'session', MaxDeltas 'text' events, 'tools' and 'end'.
C30_Witness ==
  \E t \in Turns :
    /\ mode[t] = "stream"
    /\ Len(events[t]) = MaxDeltas + 3
    /\ events[t][MaxDeltas + 2].type = "tools"
    /\ events[t][MaxDeltas + 3].type = "end"


\* C37: in what hybrid_search_tool returns either no chunk has a
\* graph_context or every chunk has one, and the same one.
C37_SameContextOnEveryChunk ==
  hpc = "done" =>
    \A i, j \in 1..Len(hybrid_out) :
      /\ HasContext(hybrid_out[i]) <=> HasContext(hybrid_out[j])
      /\ HasContext(hybrid_out[i]) =>
           hybrid_out[i].metadata["graph_context"]
             = hybrid_out[j].metadata["graph_context"]

\* Two chunks with different stored metadata were both given a context.
C37_Witness ==
  /\ hpc = "done"
  /\ Len(hybrid_out) = 2
  /\ vector_base[1].metadata # vector_base[2].metadata
  /\ HasContext(hybrid_out[1])
  /\ HasContext(hybrid_out[2])

\* The positions of the returned timeline that hold the entry built for
\* the engine result with the given uuid.
TimelinePositions(u) == {p \in 1..Len(tout) : tout[p].uuid = StrUuid(u)}

\* C38: on success the timeline get_entity_timeline returns is a
\* permutation of the engine's results (each result once, nothing else),
\* and results with equal sort key keep the engine's relative order.
C38_StablePermutation ==
  (tool = "get_entity_timeline_tool" /\ tpc = "done" /\ tfault = {}) =>
    /\ Len(tout) = Len(engine_out)
    /\ \A i \in 1..Len(engine_out) :
         /\ Cardinality(TimelinePositions(engine_out[i].uuid)) = 1
         /\ \A p \in TimelinePositions(engine_out[i].uuid) :
              tout[p] = ResultDict(engine_out[i])
    /\ \A i, j \in 1..Len(engine_out) :
         (i < j /\ SortKey(ResultDict(engine_out[i]))
                     = SortKey(ResultDict(engine_out[j]))) =>
           \A p \in TimelinePositions(engine_out[i].uuid),
              q \in TimelinePositions(engine_out[j].uuid) : p < q

\* A timeline of three results: two with the same valid_at, returned by
\* the engine after an older one that the sort moves behind them.
C38_Witness ==
  /\ tool = "get_entity_timeline_tool"
  /\ tpc = "done"
  /\ tfault = {}
  /\ Len(engine_out) = 3
  /\ engine_out[1].valid_at = <<1850>>
  /\ engine_out[2].valid_at = <<2023>>
  /\ engine_out[3].valid_at = <<2023>>
  /\ tout[1].uuid = StrUuid(2)
  /\ tout[2].uuid = StrUuid(3)


\* A step of the turn, from the saving of the user message on, raised.
FailedAfterContext(t) ==
  \E i \in 1..Len(steps[t]) :
    /\ steps[t][i].step \in {"user_save", "agent", "assistant_save", "commit"}
    /\ ~steps[t][i].ok

\* C31: a non-streaming turn in which the agent, a save or the commit
\* failed is answered with the handler's HTTP 500 error object and leaves
\* nothing pending, no assistant Message and no ToolUsage row of the turn
\* in the store. (That the Messages of earlier turns stay as they were is
\* not part of this predicate: no handler changes or removes a committed
\* row.)
C31_FailedChatRolledBackAs500 ==
  \A t \in Turns :
    (mode[t] = "chat" /\ pc[t] = "done" /\ FailedAfterContext(t)) =>
      /\ outcome[t] = "http500"
      /\ tx[t] = EmptyTx
      /\ \A i \in 1..Len(messages) : messages[i].id # <<t, "assistant">>
      /\ \A u \in tool_usage : u.message_id[1] # t

\* C32: at most one Session row exists for a session_id, whatever the
\* interleaving of the turns that carry it (so that every later lookup of
\* the session_id finds exactly one row).
C32_OneSessionPerId ==
  \A sid \in ClientSessionIds :
    Cardinality({r \in sessions : r.session_id = sid}) <= 1

\* The rows, committed or pending in turn t, that turn t can see.
RowsSeenBy(t) == sessions \cup tx[t].sessions

\* C36: when the request carries a session_id, that is the session_id the
\* turn reports (in the ChatResponse, in the 'session' event), the Session
\* the turn creates has it, and the Messages of the turn belong to a
\* Session that has it.
C36_ReportedSessionIdIsRequested ==
  \A t \in Turns :
    (pc[t] # "off" /\ req_session_id[t] # "") =>
      LET rows == RowsSeenBy(t)
          mine == SelectSeq(messages \o tx[t].messages, LAMBDA m : m.id[1] = t)
          convs == {mine[i].conversation_id : i \in 1..Len(mine)}
      IN  /\ reply[t] # <<>> => reply[t].session_id = req_session_id[t]
          /\ \A i \in 1..Len(events[t]) :
               events[t][i].type = "session" =>
                 events[t][i].content = req_session_id[t]
          /\ \A r \in rows :
               (r.id = t \/ r.id \in convs) => r.session_id = req_session_id[t]
          /\ \A c \in convs : \E r \in rows : r.id = c

\* Two turns with session_id s1 succeeded, a streaming one that created
\* the Session and a non-streaming one that found it.
C36_Witness ==
  \E t, u \in Turns :
    /\ req_session_id[t] = "s1"
    /\ req_session_id[u] = "s1"
    /\ mode[u] = "stream"
    /\ TurnSucceeded(u)
    /\ reply[t] # <<>>
    /\ sessions = {r \in sessions : r.id = u}
    /\ \E i \in 1..Len(messages) :
         messages[i].id[1] = t /\ messages[i].conversation_id = u


\* --------------------------------- properties of the shared GraphitiClient

\* C33: in every state reached by interleaved initialize() and close()
\* calls, _initialized is true only if the graphiti handle is not None.
C33_InitializedImpliesHandle == initialized => graphiti # "None"

\* C34: between two close() calls the Graphiti object is constructed at
\* most once, however many tasks call initialize() while the client is not
\* initialised.
C34_HandleConstructedOnce == handles <= 1


\* ------------------------------ properties of perform_comprehensive_search

====
